---- MODULE Spec2Model ----
(***************************************************************************)
(* Crowd-control simulation engines of backend/app/engine:                 *)
(*   - CrowdSimulationEngine (simulation.py): gate queues, zone occupancy  *)
(*     and inter-zone diffusion advanced by simulate_timestep;             *)
(*   - EvacuationSimulator (evacuation.py): exit-constrained egress with   *)
(*     the phase state machine, advanced by simulate_step;                 *)
(*   - FacilitySimulator (facilities.py): the queues of the facilities;    *)
(*   - TransportSimulator (transport.py): predict_exit_surge;              *)
(* and the simulation API that drives the first of them                    *)
(* (api/routes/simulation.py, api/websocket.py).                           *)
(*                                                                         *)
(* Numbers.  The Python code computes in floats and truncates with int(). *)
(* Every quantity here is the exact rational the float stands for, kept   *)
(* as an integer numerator over a fixed denominator: a density is the     *)
(* pair occupancy/area, a reduction factor is a number of tenths, a       *)
(* duration is a number of seconds (dt/60 minutes).  int(x) of a           *)
(* non-negative x is the floor, written with \div.                         *)
(***************************************************************************)
EXTENDS Integers, Sequences, FiniteSets, TLC

VARIABLES
    venue,        \* Venue passed to the engine (read-only configuration)
    crowd_state,  \* CrowdState of the run
    run,          \* the driver of the run: what it has called so far
    exits,        \* EvacuationSimulator.exits   : exit_id -> EmergencyExit
    zones,        \* EvacuationSimulator.zones   : zone_id -> EvacuationZone
    state,        \* EvacuationSimulator.state   : None or EvacuationState
    history,      \* EvacuationSimulator.history : copies of past states
    last_call,    \* the last call made on the simulator and how it ended
    simulations,    \* routes/simulation.py _simulations    : key -> SimulationState
    engines,        \* routes/simulation.py _engines        : key -> engine
    arrival_curves, \* routes/simulation.py _arrival_curves : key -> curve
    sockets,        \* the WebSocket handlers: where each one stands
    facilities,     \* FacilitySimulator.facilities : the Facility objects
    schedule        \* TransportSimulator.schedule : the TransportSchedule

vars == <<venue, crowd_state, run, exits, zones, state, history, last_call,
          simulations, engines, arrival_curves, sockets, facilities, schedule>>

crowdVars == <<venue, crowd_state, run>>
evacVars  == <<exits, zones, state, history, last_call>>
apiVars   == <<simulations, engines, arrival_curves, sockets>>
serviceVars == <<facilities, schedule>>

Min(a, b) == IF a <= b THEN a ELSE b
Max(a, b) == IF a >= b THEN a ELSE b

RECURSIVE SumSeq(_)
SumSeq(s) == IF s = <<>> THEN 0 ELSE Head(s) + SumSeq(Tail(s))

(***************************************************************************)
(* SimulationParams (simulation.py:17-37).  Densities and factors are in   *)
(* tenths: density_comfortable 0.5 is 5, flow_reduction_crowded 0.7 is 7.  *)
(***************************************************************************)
density_comfortable_x10 == 5
density_crowded_x10 == 20
density_dangerous_x10 == 40
density_critical_x10 == 60
flow_reduction_none_x10 == 10
flow_reduction_crowded_x10 == 7
flow_reduction_dangerous_x10 == 4
flow_reduction_critical_x10 == 1
\* desired_speed 1.34 m/s, in hundredths
desired_speed_x100 == 134

\* A density is occupancy / area: [num |-> occupancy, den |-> area_sqm].
Density(occ, area) == [num |-> occ, den |-> area]
\* density < t/10
DensityBelow(d, t_x10) == 10 * d.num < t_x10 * d.den
\* d1 <= d2
DensityLeq(d1, d2) == d1.num * d2.den <= d2.num * d1.den

(***************************************************************************)
(* Venue (models/venue.py).  zones and gates are lists, in list order.     *)
(***************************************************************************)
Zone(zone_id, capacity, area_sqm, connected_zones) ==
    [zone_id |-> zone_id, capacity |-> capacity, area_sqm |-> area_sqm,
     connected_zones |-> connected_zones]

Gate(gate_id, capacity_per_minute, is_emergency_exit, connected_zones, is_open) ==
    [gate_id |-> gate_id, capacity_per_minute |-> capacity_per_minute,
     is_emergency_exit |-> is_emergency_exit,
     connected_zones |-> connected_zones, is_open |-> is_open]

ZoneIds(v) == {v.zones[i].zone_id : i \in 1..Len(v.zones)}
GateIds(v) == {v.gates[i].gate_id : i \in 1..Len(v.gates)}

\* Venue.get_zone: the first zone of the list with that id (None when absent).
HasZone(v, zone_id) == zone_id \in ZoneIds(v)
get_zone(v, zone_id) ==
    v.zones[CHOOSE i \in 1..Len(v.zones) :
                /\ v.zones[i].zone_id = zone_id
                /\ \A j \in 1..(i - 1) : v.zones[j].zone_id # zone_id]

(***************************************************************************)
(* CrowdSimulationEngine.initialize_state                                  *)
(***************************************************************************)
initialize_state(v, expected_attendance) ==
    [simulation_time_seconds |-> 0,
     total_inside |-> 0,
     total_queuing |-> 0,
     total_exited |-> 0,
     total_approaching |-> expected_attendance,
     zone_states |-> [z \in ZoneIds(v) |->
                        [current_occupancy |-> 0,
                         density |-> Density(0, 1),
                         risk_level |-> "safe"]],
     gate_states |-> [g \in GateIds(v) |->
                        [queue_length |-> 0,
                         throughput_rate |-> [num |-> 0, den |-> 1],
                         wait_time_minutes |-> [num |-> 0, den |-> 1],
                         is_congested |-> FALSE]],
     overall_inflow_rate |-> [num |-> 0, den |-> 1]]

(***************************************************************************)
(* _get_density_reduction and _get_risk_level: first matching breakpoint.  *)
(***************************************************************************)
get_density_reduction(density) ==
    IF DensityBelow(density, density_comfortable_x10) THEN flow_reduction_none_x10
    ELSE IF DensityBelow(density, density_crowded_x10) THEN flow_reduction_crowded_x10
    ELSE IF DensityBelow(density, density_dangerous_x10) THEN flow_reduction_dangerous_x10
    ELSE flow_reduction_critical_x10

\* A slip in the tiers: the comfortable breakpoint compared with <=.
get_risk_level_shifted(density) ==
    IF 10 * density.num <= density_crowded_x10 * density.den THEN "safe"
    ELSE IF DensityBelow(density, density_dangerous_x10) THEN "high"
    ELSE "critical"

get_risk_level(density) ==
    IF DensityBelow(density, density_comfortable_x10) THEN "safe"
    ELSE IF DensityBelow(density, density_crowded_x10) THEN "moderate"
    ELSE IF DensityBelow(density, density_dangerous_x10) THEN "high"
    ELSE "critical"

\* _calculate_flow_reduction: the reduction at the largest stored density of
\* the zones the venue knows among connected_zones; 1.0 for an empty list.
calculate_flow_reduction(v, st, connected_zones) ==
    IF Len(connected_zones) = 0 THEN flow_reduction_none_x10
    ELSE LET known == {connected_zones[i] : i \in 1..Len(connected_zones)}
                          \cap ZoneIds(v)
             ds == {st.zone_states[z].density : z \in known}
             max_density == CHOOSE d \in ds : \A e \in ds : DensityLeq(e, d)
         IN get_density_reduction(max_density)

(***************************************************************************)
(* _process_arrivals                                                       *)
(***************************************************************************)
\* int(arrival_rate * dt_seconds / 60 + rng.random()) capped by the people
\* still approaching; jitter is the draw in sixtieths (0..59).
arrivals_this_step(st, arrival_rate, dt_seconds, jitter) ==
    Min((arrival_rate * dt_seconds + jitter) \div 60, st.total_approaching)

open_gates(v) ==
    SelectSeq(v.gates, LAMBDA g : g.is_open /\ ~g.is_emergency_exit)

total_capacity(gates) ==
    SumSeq([i \in 1..Len(gates) |-> gates[i].capacity_per_minute])

\* int(arrivals_this_step * gate_share)
gate_arrivals(arrivals, capacity_per_minute, total) ==
    (arrivals * capacity_per_minute) \div total

\* A slip in the bookkeeping below: the queue is set, not added to.
queue_arrivals_overwritten(st, gate_id, n) ==
    [st EXCEPT !.gate_states[gate_id].queue_length = n,
               !.total_approaching = @ - n,
               !.total_queuing = @ + n]

\* A slip in the bookkeeping below: the gate total is not kept.
queue_arrivals_untallied(st, gate_id, n) ==
    [st EXCEPT !.gate_states[gate_id].queue_length = @ + n,
               !.total_approaching = @ - n]

\* n people leave the approach and join the gate's queue.
queue_arrivals(st, gate_id, n) ==
    [st EXCEPT !.gate_states[gate_id].queue_length = @ + n,
               !.total_approaching = @ - n,
               !.total_queuing = @ + n]

RECURSIVE distribute_arrivals(_, _, _, _)
distribute_arrivals(st, gates, arrivals, total) ==
    IF gates = <<>> THEN st
    ELSE LET gate == Head(gates)
             n == gate_arrivals(arrivals, gate.capacity_per_minute, total)
         IN distribute_arrivals(queue_arrivals(st, gate.gate_id, n),
                                Tail(gates), arrivals, total)

process_arrivals(v, st, arrival_rate, dt_seconds, jitter) ==
    IF st.total_approaching <= 0 THEN st
    ELSE LET arrivals == arrivals_this_step(st, arrival_rate, dt_seconds, jitter)
             gates == open_gates(v)
         IN IF arrivals <= 0 THEN st
            ELSE IF gates = <<>> THEN st
            ELSE distribute_arrivals(st, gates, arrivals, total_capacity(gates))

(***************************************************************************)
(* _process_gates                                                          *)
(***************************************************************************)
\* The throughput below without the gate's capacity as a bound.
actual_throughput_overfull(capacity_per_minute, dt_seconds, queue_length, reduction_x10) ==
    (queue_length * reduction_x10) \div 10

\* A slip in the throughput below: the queue does not bound it.
actual_throughput_unbounded(capacity_per_minute, dt_seconds, queue_length, reduction_x10) ==
    (capacity_per_minute * dt_seconds * reduction_x10) \div 600

\* The products people * reduction, people up to 200, that are whole in
\* exact arithmetic and that binary floating point rounds to just below the
\* whole number: 90 * 0.7, 170 * 0.7 and 180 * 0.7.  int() of them is one
\* less than the exact product.
product_rounds_below == {<<90, 7>>, <<170, 7>>, <<180, 7>>}

\* int(min(capacity_per_minute * dt_seconds / 60, queue_length) * reduction)
actual_throughput(capacity_per_minute, dt_seconds, queue_length, reduction_x10) ==
    LET people_x60 == Min(capacity_per_minute * dt_seconds, queue_length * 60)
        exact == (people_x60 * reduction_x10) \div 600
    IN IF \E p \in product_rounds_below :
              people_x60 = 60 * p[1] /\ reduction_x10 = p[2]
       THEN exact - 1
       ELSE exact

\* What the gate admits in this step: nothing when closed or with no queue.
gate_admits(v, st, gate, dt_seconds) ==
    IF ~gate.is_open THEN 0
    ELSE IF st.gate_states[gate.gate_id].queue_length <= 0 THEN 0
    ELSE actual_throughput(gate.capacity_per_minute, dt_seconds,
                           st.gate_states[gate.gate_id].queue_length,
                           calculate_flow_reduction(v, st, gate.connected_zones))

\* A slip in the loop below: the people admitted reach no zone.
add_to_zones_skipped(v, st, connected_zones, per_zone) == st

\* per_zone = actual_throughput // len(connected_zones), added to every
\* connected zone the venue knows.
RECURSIVE add_to_zones(_, _, _, _)
add_to_zones(v, st, connected_zones, per_zone) ==
    IF connected_zones = <<>> THEN st
    ELSE LET z == Head(connected_zones)
             st1 == IF HasZone(v, z)
                    THEN [st EXCEPT !.zone_states[z].current_occupancy = @ + per_zone]
                    ELSE st
         IN add_to_zones(v, st1, Tail(connected_zones), per_zone)

gate_step(v, st, gate, dt_seconds) ==
    IF ~gate.is_open THEN st
    ELSE IF st.gate_states[gate.gate_id].queue_length <= 0 THEN st
    ELSE LET actual == gate_admits(v, st, gate, dt_seconds)
             queue == st.gate_states[gate.gate_id].queue_length - actual
             cap == gate.capacity_per_minute
             st1 == [st EXCEPT !.gate_states[gate.gate_id] =
                       [queue_length |-> queue,
                        throughput_rate |-> [num |-> actual * 60, den |-> dt_seconds],
                        wait_time_minutes |-> IF cap > 0 THEN [num |-> queue, den |-> cap]
                                              ELSE [num |-> 0, den |-> 1],
                        is_congested |-> (cap > 0 /\ queue > 10 * cap)]]
             st2 == IF Len(gate.connected_zones) > 0 /\ actual > 0
                    THEN add_to_zones(v, st1, gate.connected_zones,
                                      actual \div Len(gate.connected_zones))
                    ELSE st1
         IN [st2 EXCEPT !.total_queuing = @ - actual]

RECURSIVE process_gates_from(_, _, _, _, _)
process_gates_from(v, st, gates, dt_seconds, total_entered) ==
    IF gates = <<>>
    THEN [st EXCEPT !.total_inside = @ + total_entered,
                    !.overall_inflow_rate = [num |-> total_entered * 60,
                                             den |-> dt_seconds]]
    ELSE process_gates_from(v, gate_step(v, st, Head(gates), dt_seconds),
                            Tail(gates), dt_seconds,
                            total_entered + gate_admits(v, st, Head(gates), dt_seconds))

process_gates(v, st, dt_seconds) ==
    process_gates_from(v, st, v.gates, dt_seconds, 0)

(***************************************************************************)
(* _process_zone_flow                                                      *)
(***************************************************************************)
\* The flow without the receiving zone's remaining capacity among its caps.
diffusion_flow_uncapped(reduction_x10, dt_seconds, n_connected, occupancy, available_capacity) ==
    Min((desired_speed_x100 * 60 * reduction_x10 * dt_seconds)
            \div (100 * 10 * 60 * n_connected),
        occupancy \div 10)

\* int(min(base_flow_rate * reduction * dt_seconds / 60 / len(connected),
\*         current_occupancy * 0.1, available_capacity))
\* with base_flow_rate = desired_speed * 60.
diffusion_flow(reduction_x10, dt_seconds, n_connected, occupancy, available_capacity) ==
    Min(Min((desired_speed_x100 * 60 * reduction_x10 * dt_seconds)
                \div (100 * 10 * 60 * n_connected),
            occupancy \div 10),
        available_capacity)

RECURSIVE flow_to_targets(_, _, _, _, _, _)
flow_to_targets(st, zone_id, targets, n_connected, reduction_x10, dt_seconds) ==
    IF targets = <<>> THEN st
    ELSE LET target == Head(targets)
             available_capacity ==
                 target.capacity - st.zone_states[target.zone_id].current_occupancy
             flow == diffusion_flow(reduction_x10, dt_seconds, n_connected,
                                    st.zone_states[zone_id].current_occupancy,
                                    available_capacity)
             st1 == IF available_capacity <= 0 \/ flow <= 0 THEN st
                    ELSE [st EXCEPT
                            !.zone_states[zone_id].current_occupancy = @ - flow,
                            !.zone_states[target.zone_id].current_occupancy = @ + flow]
         IN flow_to_targets(st1, zone_id, Tail(targets), n_connected,
                            reduction_x10, dt_seconds)

\* The zones of zone.connected_zones the venue knows, in list order.
connected_targets(v, zone) ==
    LET ids == SelectSeq(zone.connected_zones, LAMBDA z : HasZone(v, z))
    IN [i \in 1..Len(ids) |-> get_zone(v, ids[i])]

zone_flow_step(v, st, zone, dt_seconds) ==
    IF st.zone_states[zone.zone_id].current_occupancy <= 0 THEN st
    ELSE LET connected == connected_targets(v, zone)
         IN IF connected = <<>> THEN st
            ELSE flow_to_targets(st, zone.zone_id, connected, Len(connected),
                                 get_density_reduction(st.zone_states[zone.zone_id].density),
                                 dt_seconds)

RECURSIVE process_zone_flow_from(_, _, _, _)
process_zone_flow_from(v, st, zs, dt_seconds) ==
    IF zs = <<>> THEN st
    ELSE process_zone_flow_from(v, zone_flow_step(v, st, Head(zs), dt_seconds),
                                Tail(zs), dt_seconds)

process_zone_flow(v, st, dt_seconds) ==
    process_zone_flow_from(v, st, v.zones, dt_seconds)

(***************************************************************************)
(* _update_densities                                                       *)
(***************************************************************************)
RECURSIVE update_densities_from(_, _)
update_densities_from(st, zs) ==
    IF zs = <<>> THEN st
    ELSE LET zone == Head(zs)
             d == Density(st.zone_states[zone.zone_id].current_occupancy, zone.area_sqm)
         IN update_densities_from(
                [st EXCEPT !.zone_states[zone.zone_id].density = d,
                           !.zone_states[zone.zone_id].risk_level = get_risk_level(d)],
                Tail(zs))

update_densities(v, st) == update_densities_from(st, v.zones)

(***************************************************************************)
(* simulate_timestep: the copy of the state, advanced through the four     *)
(* phases in their fixed order.                                            *)
(***************************************************************************)
simulate_timestep(v, st, dt_seconds, arrival_rate, jitter) ==
    LET new_state == [st EXCEPT !.simulation_time_seconds = @ + dt_seconds]
        after_arrivals == process_arrivals(v, new_state, arrival_rate, dt_seconds, jitter)
        after_gates == process_gates(v, after_arrivals, dt_seconds)
        after_flow == process_zone_flow(v, after_gates, dt_seconds)
    IN update_densities(v, after_flow)

(***************************************************************************)
(* The runs explored.  Venues are small instances of the Venue model       *)
(* (capacity >= 1, area >= 1, gate capacity >= 1, as Field(ge=1) demands): *)
(* on them every int() of the source agrees with the exact floor used      *)
(* here.                                                                   *)
(***************************************************************************)
\* one roomy zone (density stays low) behind one gate
VenueHall ==
    [zones |-> << Zone("hall", 10, 20, <<>>) >>,
     gates |-> << Gate("main", 6, FALSE, <<"hall">>, TRUE) >>]

\* two connected zones, a gate for each and one feeding both, an open
\* emergency exit and a closed gate
VenueArena ==
    [zones |-> << Zone("floor", 12, 2, <<"stand">>),
                  Zone("stand", 20, 10, <<"floor">>) >>,
     gates |-> << Gate("north", 6, FALSE, <<"floor">>, TRUE),
                  Gate("south", 12, FALSE, <<"floor", "stand">>, TRUE),
                  Gate("west", 12, FALSE, <<"stand">>, TRUE),
                  Gate("fire", 6, TRUE, <<"stand">>, TRUE),
                  Gate("east", 6, FALSE, <<"floor">>, FALSE) >>]

Venues == {VenueHall, VenueArena}

MaxAttendance == 24
MaxSteps == 5
Attendances == {0, MaxAttendance - 1, MaxAttendance}
\* dt_seconds: 10.0 is what the API drivers pass, 60 the documented step
DtChoices == {10, 60}
\* arrival_rate, people per minute
ArrivalRates == {0, 9, 30}
\* rng.random() in sixtieths
Jitters == {0, 59}

InitCrowd ==
    /\ venue \in Venues
    /\ \E n \in Attendances : crowd_state = initialize_state(venue, n)
    /\ run = [steps |-> 0, dts |-> {}, expected_attendance |-> crowd_state.total_approaching]
    /\ exits = <<>>
    /\ zones = <<>>
    /\ state = <<>>
    /\ history = <<>>
    /\ last_call = <<>>
    /\ simulations = <<>>
    /\ engines = <<>>
    /\ arrival_curves = <<>>
    /\ sockets = <<>>
    /\ facilities = <<>>
    /\ schedule = <<>>

SimulateTimestep ==
    \E dt_seconds \in DtChoices, arrival_rate \in ArrivalRates, jitter \in Jitters :
        /\ run.steps < MaxSteps
        /\ crowd_state' = simulate_timestep(venue, crowd_state, dt_seconds,
                                            arrival_rate, jitter)
        /\ run' = [run EXCEPT !.steps = @ + 1, !.dts = @ \cup {dt_seconds}]
        /\ UNCHANGED venue

NextCrowd == SimulateTimestep /\ UNCHANGED <<evacVars, apiVars, serviceVars>>

SpecCrowd == InitCrowd /\ [][NextCrowd]_vars

(***************************************************************************)
(* Runs on a concourse that opens on two wings, one of them with room for  *)
(* two people only: the one zone of the runs with more than one connected  *)
(* zone, filled by one wide gate.                                          *)
(***************************************************************************)
VenueConcourse ==
    [zones |-> << Zone("concourse", 60, 60, <<"east", "west">>),
                  Zone("east", 20, 20, <<"concourse">>),
                  Zone("west", 2, 20, <<"concourse">>) >>,
     gates |-> << Gate("main", 30, FALSE, <<"concourse">>, TRUE) >>]

ConcourseAttendances == {30, 45}

InitConcourse ==
    /\ venue = VenueConcourse
    /\ \E n \in ConcourseAttendances : crowd_state = initialize_state(venue, n)
    /\ run = [steps |-> 0, dts |-> {}, expected_attendance |-> crowd_state.total_approaching]
    /\ exits = <<>>
    /\ zones = <<>>
    /\ state = <<>>
    /\ history = <<>>
    /\ last_call = <<>>
    /\ simulations = <<>>
    /\ engines = <<>>
    /\ arrival_curves = <<>>
    /\ sockets = <<>>
    /\ facilities = <<>>
    /\ schedule = <<>>

SpecConcourse == InitConcourse /\ [][NextCrowd]_vars

(***************************************************************************)
(* Runs that repeat simulate_timestep with one dt and one positive arrival *)
(* rate, every gate staying as the venue has it.                           *)
(***************************************************************************)
MaxEntrySteps == 8
PositiveRates == {9, 30}

InitEntry ==
    /\ venue \in Venues
    /\ crowd_state = initialize_state(venue, MaxAttendance)
    /\ \E dt_seconds \in DtChoices, arrival_rate \in PositiveRates :
          run = [steps |-> 0, dt_seconds |-> dt_seconds,
                 arrival_rate |-> arrival_rate,
                 expected_attendance |-> MaxAttendance]
    /\ exits = <<>>
    /\ zones = <<>>
    /\ state = <<>>
    /\ history = <<>>
    /\ last_call = <<>>
    /\ simulations = <<>>
    /\ engines = <<>>
    /\ arrival_curves = <<>>
    /\ sockets = <<>>
    /\ facilities = <<>>
    /\ schedule = <<>>

\* The next call of the run, with whatever the generator draws.
EntryStep ==
    \E jitter \in Jitters :
        /\ run.steps < MaxEntrySteps
        /\ crowd_state' = simulate_timestep(venue, crowd_state, run.dt_seconds,
                                            run.arrival_rate, jitter)
        /\ run' = [run EXCEPT !.steps = @ + 1]
        /\ UNCHANGED venue

NextEntry == EntryStep /\ UNCHANGED <<evacVars, apiVars, serviceVars>>

SpecEntry == InitEntry /\ [][NextEntry]_vars

(***************************************************************************)
(* Runs on a large hall: one zone of capacity 1000 on 250 m2 behind one    *)
(* open gate of 200 people per minute.                                     *)
(***************************************************************************)
VenueStadium ==
    [zones |-> << Zone("bowl", 1000, 250, <<>>) >>,
     gates |-> << Gate("gate", 200, FALSE, <<"bowl">>, TRUE) >>]

StadiumAttendances == {300, 301, 450}
\* arrival_rate, people per minute
StadiumRates == {0, 9, 300}

InitStadium ==
    /\ venue = VenueStadium
    /\ \E n \in StadiumAttendances : crowd_state = initialize_state(venue, n)
    /\ run = [steps |-> 0, dts |-> {}, rates |-> {},
              expected_attendance |-> crowd_state.total_approaching]
    /\ exits = <<>>
    /\ zones = <<>>
    /\ state = <<>>
    /\ history = <<>>
    /\ last_call = <<>>
    /\ simulations = <<>>
    /\ engines = <<>>
    /\ arrival_curves = <<>>
    /\ sockets = <<>>
    /\ facilities = <<>>
    /\ schedule = <<>>

StadiumTimestep ==
    \E dt_seconds \in DtChoices, arrival_rate \in StadiumRates, jitter \in Jitters :
        /\ run.steps < MaxSteps
        /\ crowd_state' = simulate_timestep(venue, crowd_state, dt_seconds,
                                            arrival_rate, jitter)
        /\ run' = [run EXCEPT !.steps = @ + 1, !.dts = @ \cup {dt_seconds},
                              !.rates = @ \cup {arrival_rate}]
        /\ UNCHANGED venue

NextStadium == StadiumTimestep /\ UNCHANGED <<evacVars, apiVars, serviceVars>>

SpecStadium == InitStadium /\ [][NextStadium]_vars

(***************************************************************************)
(* EvacuationSimulator (evacuation.py).                                    *)
(*                                                                         *)
(* exits and zones are the simulator's dicts, kept as lists in insertion   *)
(* order.  EvacuationState.zones holds the very EvacuationZone objects of  *)
(* the simulator (line 126 copies the dict, not the zones), so the one     *)
(* variable `zones` is both.  state is <<>> for None and <<s>> for an      *)
(* EvacuationState s.  distance_to_exits and the velocity only feed        *)
(* travel_time (line 174), which nothing reads: they are left out.         *)
(***************************************************************************)
EmergencyExit(exit_id, max_flow_rate, is_accessible) ==
    [exit_id |-> exit_id, max_flow_rate |-> max_flow_rate,
     is_accessible |-> is_accessible, current_flow_rate |-> 0]

EvacuationZone(zone_id, current_occupancy, area_sqm, nearest_exits) ==
    [zone_id |-> zone_id, current_occupancy |-> current_occupancy,
     area_sqm |-> area_sqm, nearest_exits |-> nearest_exits,
     evacuation_started |-> FALSE, evacuated_count |-> 0,
     estimated_time_remaining |-> 0]

\* Bottleneck thresholds (persons per square metre)
BOTTLENECK_DENSITY == 4
CRUSHING_DENSITY == 6

ExitIds(ex) == {ex[i].exit_id : i \in 1..Len(ex)}
ExitIndex(ex, exit_id) == CHOOSE i \in 1..Len(ex) : ex[i].exit_id = exit_id

total_occupancy(zs) ==
    SumSeq([i \in 1..Len(zs) |-> zs[i].current_occupancy])

(***************************************************************************)
(* start_evacuation                                                        *)
(***************************************************************************)
\* safety_factor in halves: 1.5 for ALERT, 2.0 otherwise
safety_factor_x2(initial_phase) == IF initial_phase = "alert" THEN 3 ELSE 4

\* estimated_time with no exit capacity (line 114)
no_capacity_estimate == 9999

\* int(estimated_time * safety_factor), estimated_time being
\* (total / total_exit_capacity) * 60, or 9999 with no exit capacity
initial_estimate(total, total_exit_capacity, initial_phase) ==
    IF total_exit_capacity > 0
    THEN (total * 60 * safety_factor_x2(initial_phase)) \div (2 * total_exit_capacity)
    ELSE (no_capacity_estimate * safety_factor_x2(initial_phase)) \div 2

\* sorted(zones, key=current_occupancy, reverse=True): a stable sort
RECURSIVE insert_by_occupancy(_, _)
insert_by_occupancy(sorted, z) ==
    IF sorted = <<>> THEN <<z>>
    ELSE IF Head(sorted).current_occupancy >= z.current_occupancy
         THEN <<Head(sorted)>> \o insert_by_occupancy(Tail(sorted), z)
         ELSE <<z>> \o sorted

RECURSIVE sorted_zones(_)
sorted_zones(zs) ==
    IF zs = <<>> THEN <<>>
    ELSE insert_by_occupancy(sorted_zones(SubSeq(zs, 1, Len(zs) - 1)), zs[Len(zs)])

\* _generate_initial_recommendations, given the zones of the state in place
generate_initial_recommendations(zs) ==
    LET top == SubSeq(sorted_zones(zs), 1, Min(3, Len(zs)))
        ranked == [i \in 1..Len(top) |->
                     [priority |-> i, target |-> top[i].zone_id,
                      type |-> "evacuation_start",
                      occupied |-> top[i].current_occupancy > 0]]
        kept == SelectSeq(ranked, LAMBDA r : r.occupied)
    IN [i \in 1..Len(kept) |->
          [priority |-> kept[i].priority, target |-> kept[i].target,
           type |-> kept[i].type]]

\* The EvacuationState of lines 120-130
new_evacuation_state(ex, zs, initial_phase, recommendations) ==
    [phase |-> initial_phase,
     elapsed_seconds |-> 0,
     total_to_evacuate |-> total_occupancy(zs),
     total_evacuated |-> 0,
     bottlenecks |-> <<>>,
     recommendations |-> recommendations,
     estimated_complete_time |->
         initial_estimate(total_occupancy(zs),
                          SumSeq([i \in 1..Len(ex) |-> ex[i].max_flow_rate]),
                          initial_phase)]

(***************************************************************************)
(* simulate_step: one zone                                                 *)
(***************************************************************************)
\* int(exit.max_flow_rate * congestion_factor * dt_minutes) with
\* congestion_factor = max(0.3, 1.0 - (density / BOTTLENECK_DENSITY) * 0.5)
\* and density = occupancy / area
effective_rate(max_flow_rate, occupancy, area_sqm, dt_seconds) ==
    LET den == 2 * BOTTLENECK_DENSITY * area_sqm
        \* congestion_factor as a fraction of 10 * den
        factor == Max(3 * den, 10 * (den - occupancy))
    IN (max_flow_rate * factor * dt_seconds) \div (10 * den * 60)

\* A slip in the count below: the people left in the zone do not bound it.
evacuated_via_exit_uncapped(rate, occupancy, zone_evacuated) == rate

\* min(int(effective_rate), zone.current_occupancy - zone_evacuated)
evacuated_via_exit(rate, occupancy, zone_evacuated) ==
    Min(rate, occupancy - zone_evacuated)

\* The loop over zone.nearest_exits (lines 164-184): the exits with their
\* current_flow_rate set, and the people evacuated from the zone.
RECURSIVE through_exits(_, _, _, _, _)
through_exits(ex, zone, exit_ids, dt_seconds, zone_evacuated) ==
    IF exit_ids = <<>> THEN [exits |-> ex, zone_evacuated |-> zone_evacuated]
    ELSE LET exit_id == Head(exit_ids)
         IN IF exit_id \notin ExitIds(ex)
            THEN through_exits(ex, zone, Tail(exit_ids), dt_seconds, zone_evacuated)
            ELSE LET i == ExitIndex(ex, exit_id)
                 IN IF ~ex[i].is_accessible
                    THEN through_exits(ex, zone, Tail(exit_ids), dt_seconds,
                                       zone_evacuated)
                    ELSE LET n == evacuated_via_exit(
                                      effective_rate(ex[i].max_flow_rate,
                                                     zone.current_occupancy,
                                                     zone.area_sqm, dt_seconds),
                                      zone.current_occupancy, zone_evacuated)
                             ex1 == [ex EXCEPT ![i].current_flow_rate =
                                                   (n * 60) \div dt_seconds]
                         IN through_exits(ex1, zone, Tail(exit_ids), dt_seconds,
                                          zone_evacuated + n)

\* sum of max_flow_rate over the known, accessible exits of nearest_exits
RECURSIVE remaining_exits_capacity(_, _)
remaining_exits_capacity(ex, exit_ids) ==
    IF exit_ids = <<>> THEN 0
    ELSE (IF Head(exit_ids) \in ExitIds(ex)
             /\ ex[ExitIndex(ex, Head(exit_ids))].is_accessible
          THEN ex[ExitIndex(ex, Head(exit_ids))].max_flow_rate ELSE 0)
         + remaining_exits_capacity(ex, Tail(exit_ids))

\* A slip of sign in the update below: the evacuated are added to the zone.
zone_after_added(ex, zone, zone_evacuated) ==
    [zone EXCEPT !.evacuation_started = TRUE,
                 !.current_occupancy = @ + zone_evacuated,
                 !.evacuated_count = @ + zone_evacuated]

\* Lines 186-200: the zone after zone_evacuated people have left it.
zone_after(ex, zone, zone_evacuated) ==
    LET occupancy == zone.current_occupancy - zone_evacuated
        capacity == remaining_exits_capacity(ex, zone.nearest_exits)
    IN [zone EXCEPT
          !.evacuation_started = TRUE,
          !.current_occupancy = occupancy,
          !.evacuated_count = @ + zone_evacuated,
          !.estimated_time_remaining =
              IF occupancy > 0 /\ capacity > 0
              THEN (occupancy * 60) \div capacity ELSE @]

\* The loop over the zones (lines 150-200) from zone i on.
RECURSIVE evacuate_zones(_, _, _, _, _)
evacuate_zones(ex, zs, i, dt_seconds, total_evacuated) ==
    IF i > Len(zs)
    THEN [exits |-> ex, zones |-> zs, total_evacuated |-> total_evacuated]
    ELSE IF zs[i].current_occupancy <= 0
         THEN evacuate_zones(ex, zs, i + 1, dt_seconds, total_evacuated)
         ELSE LET r == through_exits(ex, zs[i], zs[i].nearest_exits, dt_seconds, 0)
              IN evacuate_zones(r.exits,
                                [zs EXCEPT ![i] = zone_after(r.exits, zs[i],
                                                             r.zone_evacuated)],
                                i + 1, dt_seconds,
                                total_evacuated + r.zone_evacuated)

(***************************************************************************)
(* simulate_step: after the zones                                          *)
(***************************************************************************)
\* _detect_bottlenecks: occupied zones by density, then exits at >= 90 %
detect_bottlenecks(ex, zs) ==
    LET zone_entries ==
            [i \in 1..Len(zs) |->
               [target |-> zs[i].zone_id,
                severity |->
                    IF zs[i].current_occupancy <= 0 THEN "none"
                    ELSE IF zs[i].current_occupancy >= CRUSHING_DENSITY * zs[i].area_sqm
                         THEN "critical"
                    ELSE IF zs[i].current_occupancy >= BOTTLENECK_DENSITY * zs[i].area_sqm
                         THEN "high"
                    ELSE "none"]]
        exit_entries ==
            [i \in 1..Len(ex) |->
               [target |-> ex[i].exit_id,
                severity |-> IF 10 * ex[i].current_flow_rate >= 9 * ex[i].max_flow_rate
                             THEN "medium" ELSE "none"]]
    IN SelectSeq(zone_entries \o exit_entries, LAMBDA b : b.severity # "none")

\* max density over the occupied zones is >= threshold (default=0 if none)
max_density_at_least(zs, threshold_x2) ==
    IF \E i \in 1..Len(zs) : zs[i].current_occupancy > 0
    THEN \E i \in 1..Len(zs) :
            /\ zs[i].current_occupancy > 0
            /\ 2 * zs[i].current_occupancy >= threshold_x2 * zs[i].area_sqm
    ELSE 0 >= threshold_x2

\* A slip in the last branch of the rule below: the two phases are swapped.
update_phase_swapped(phase, zs) ==
    IF max_density_at_least(zs, 2 * CRUSHING_DENSITY) THEN "critical"
    ELSE IF max_density_at_least(zs, 2 * BOTTLENECK_DENSITY) THEN "panic"
    ELSE IF phase = "critical" /\ ~max_density_at_least(zs, 2 * BOTTLENECK_DENSITY)
         THEN "panic"
    ELSE IF phase = "alert" /\ ~max_density_at_least(zs, BOTTLENECK_DENSITY) THEN "panic"
    ELSE phase

\* A slip in the rule below: leaving CRITICAL falls straight to ALERT.
update_phase_jump(phase, zs) ==
    IF max_density_at_least(zs, 2 * CRUSHING_DENSITY) THEN "critical"
    ELSE IF max_density_at_least(zs, 2 * BOTTLENECK_DENSITY) THEN "panic"
    ELSE IF phase = "critical" THEN "alert"
    ELSE IF phase = "panic" /\ ~max_density_at_least(zs, BOTTLENECK_DENSITY) THEN "alert"
    ELSE phase

\* _update_phase: the phase after the step, from the phase before it and
\* the zones as the step left them (BOTTLENECK_DENSITY * 0.5 is 2.0)
update_phase(phase, zs) ==
    IF max_density_at_least(zs, 2 * CRUSHING_DENSITY) THEN "critical"
    ELSE IF max_density_at_least(zs, 2 * BOTTLENECK_DENSITY) THEN "panic"
    ELSE IF phase = "critical" /\ ~max_density_at_least(zs, 2 * BOTTLENECK_DENSITY)
         THEN "panic"
    ELSE IF phase = "panic" /\ ~max_density_at_least(zs, BOTTLENECK_DENSITY) THEN "alert"
    ELSE phase

\* _generate_recommendations: critical bottlenecks, blocked exits, progress
\* (the texts and the rounded percentage are not modelled)
generate_recommendations(ex, bottlenecks) ==
    LET critical == SelectSeq(bottlenecks, LAMBDA b : b.severity = "critical")
        blocked == SelectSeq(ex, LAMBDA e : ~e.is_accessible)
    IN [i \in 1..Len(critical) |->
          [priority |-> 1, target |-> critical[i].target, type |-> "critical"]]
       \o [i \in 1..Len(blocked) |->
             [priority |-> 2, target |-> blocked[i].exit_id, type |-> "obstruction"]]
       \o << [priority |-> 3, target |-> "all", type |-> "progress"] >>

\* Lines 211-215: int((remaining / max(total_capacity, 1)) * 60)
overall_estimate(ex, s) ==
    LET remaining == s.total_to_evacuate - s.total_evacuated
        capacity == SumSeq([i \in 1..Len(ex) |->
                              IF ex[i].is_accessible THEN ex[i].max_flow_rate ELSE 0])
    IN IF remaining > 0 THEN (remaining * 60) \div Max(capacity, 1)
       ELSE s.estimated_complete_time

\* _copy_state: the state with its zones copied
copy_state(s, zs) == [state |-> s, zones |-> zs]

\* Walking speeds in tenths of a metre per second
NORMAL_VELOCITY_x10 == 15
PANIC_VELOCITY_x10 == 25
\* distance_to_exits.get(exit_id, 50): no zone explored gives a distance
default_distance == 50

\* Lines 156-160: the speed people walk at, from the phase of the step
velocity_x10(phase) ==
    IF phase = "panic" THEN PANIC_VELOCITY_x10 ELSE NORMAL_VELOCITY_x10

\* Line 173: travel_time = distance / velocity, in whole seconds
travel_time(distance, phase) == (distance * 10) \div velocity_x10(phase)

\* A slip: the travel time is taken off the time people have to leave in.
simulate_step_delayed(ex, zs, s, dt_seconds) ==
    LET dt_left == Max(dt_seconds - travel_time(default_distance, s.phase), 1)
        r == evacuate_zones(ex, zs, 1, dt_left, 0)
        bottlenecks == detect_bottlenecks(r.exits, r.zones)
        s1 == [s EXCEPT !.elapsed_seconds = @ + dt_seconds,
                        !.total_evacuated = @ + r.total_evacuated,
                        !.bottlenecks = bottlenecks,
                        !.phase = update_phase(s.phase, r.zones)]
        s2 == [s1 EXCEPT !.recommendations =
                             generate_recommendations(r.exits, bottlenecks)]
        s3 == [s2 EXCEPT !.estimated_complete_time = overall_estimate(r.exits, s2)]
    IN [exits |-> r.exits, zones |-> r.zones, state |-> s3]

\* simulate_step on a started evacuation: the new exits, zones and state.
\* The step works out velocity and travel_time for every exit of every
\* zone (lines 156-160, 172-173) and reads neither afterwards: the loop
\* over the zones takes no phase.
simulate_step(ex, zs, s, dt_seconds) ==
    LET travel == travel_time(default_distance, s.phase)
        r == evacuate_zones(ex, zs, 1, dt_seconds, 0)
        bottlenecks == detect_bottlenecks(r.exits, r.zones)
        s1 == [s EXCEPT !.elapsed_seconds = @ + dt_seconds,
                        !.total_evacuated = @ + r.total_evacuated,
                        !.bottlenecks = bottlenecks,
                        !.phase = update_phase(s.phase, r.zones)]
        s2 == [s1 EXCEPT !.recommendations =
                             generate_recommendations(r.exits, bottlenecks)]
        s3 == [s2 EXCEPT !.estimated_complete_time = overall_estimate(r.exits, s2)]
    IN [exits |-> r.exits, zones |-> r.zones, state |-> s3]

\* A slip: the call returns silently instead of raising.
not_started_ignored == "none"
\* What simulate_step raises when no evacuation was started (line 144).
not_started_error == "ValueError"

(***************************************************************************)
(* The evacuations explored.  Phases are the EvacuationPhase values.       *)
(***************************************************************************)
EvacuationPhase == {"normal", "alert", "panic", "critical"}

\* a crowded pit next to a lobby; one exit blocked, one id unknown
SitePit ==
    [exits |-> << EmergencyExit("a", 6, TRUE), EmergencyExit("b", 4, TRUE),
                  EmergencyExit("c", 6, FALSE) >>,
     zones |-> << EvacuationZone("pit", 13, 2, <<"a", "b">>),
                  EvacuationZone("lobby", 5, 4, <<"b", "c", "gone">>) >>]

\* a bottlenecked terrace and an empty room sharing one exit
SiteTerrace ==
    [exits |-> << EmergencyExit("a", 6, TRUE), EmergencyExit("b", 2, TRUE) >>,
     zones |-> << EvacuationZone("terrace", 9, 2, <<"a">>),
                  EvacuationZone("room", 0, 3, <<"a", "b">>) >>]

\* a calm hall
SiteHall ==
    [exits |-> << EmergencyExit("a", 4, TRUE) >>,
     zones |-> << EvacuationZone("hall", 7, 5, <<"a">>) >>]

\* a vault whose only exit lets nobody through
SiteVault ==
    [exits |-> << EmergencyExit("a", 0, TRUE) >>,
     zones |-> << EvacuationZone("vault", 3, 4, <<"a">>) >>]

\* a cellar behind a blocked exit, below a stair that is free
SiteCellar ==
    [exits |-> << EmergencyExit("a", 6, TRUE), EmergencyExit("b", 4, FALSE) >>,
     zones |-> << EvacuationZone("cellar", 3, 4, <<"b">>),
                  EvacuationZone("stair", 2, 4, <<"a">>) >>]

\* a foyer and a bar, both roomy, that leave by the same door
SiteFoyer ==
    [exits |-> << EmergencyExit("a", 4, TRUE) >>,
     zones |-> << EvacuationZone("foyer", 6, 6, <<"a">>),
                  EvacuationZone("bar", 6, 6, <<"a">>) >>]

Sites == {SitePit, SiteTerrace, SiteHall, SiteVault, SiteCellar, SiteFoyer}

MaxEvacSteps == 5
\* states put in place in one run: the first and the restarts
MaxStarts == 2
\* dt_seconds of simulate_step: 60 is its default
EvacDtChoices == {30, 60}

Call(op, arg, fresh, raised) ==
    [op |-> op, arg |-> arg, fresh |-> fresh, raised |-> raised]

InitEvac ==
    /\ \E site \in Sites : exits = site.exits /\ zones = site.zones
    /\ state = <<>>
    /\ history = <<>>
    /\ last_call = <<>>
    /\ venue = <<>>
    /\ crowd_state = <<>>
    /\ run = [starts |-> 0, started_by |-> "nobody"]
    /\ simulations = <<>>
    /\ engines = <<>>
    /\ arrival_curves = <<>>
    /\ sockets = <<>>
    /\ facilities = <<>>
    /\ schedule = <<>>

\* start_evacuation(trigger_time, initial_phase).  The EvacuationState is
\* built from its arguments before it is assigned (lines 120-130), and the
\* recommendations argument reads self.state.zones (line 288): with no
\* state yet the call raises AttributeError and assigns nothing.
StartEvacuation ==
    \E initial_phase \in EvacuationPhase :
        IF state = <<>>
        THEN /\ last_call' = << Call("start_evacuation", initial_phase, TRUE,
                                     "AttributeError") >>
             /\ UNCHANGED <<exits, zones, state, history, run>>
        ELSE /\ run.starts < MaxStarts
             /\ state' = << new_evacuation_state(exits, zones, initial_phase,
                                generate_initial_recommendations(zones)) >>
             /\ last_call' = << Call("start_evacuation", initial_phase, FALSE, "none") >>
             /\ run' = [starts |-> run.starts + 1, started_by |-> "start_evacuation"]
             /\ UNCHANGED <<exits, zones, history>>

\* The caller puts the first EvacuationState into the simulator's public
\* `state` attribute itself (line 101), built as lines 120-130 build it:
\* the only way to a started evacuation, since start_evacuation raises
\* until a state is there.
AssignState ==
    \E initial_phase \in EvacuationPhase :
        /\ state = <<>>
        /\ state' = << new_evacuation_state(exits, zones, initial_phase, <<>>) >>
        /\ last_call' = << Call("assign_state", initial_phase, TRUE, "none") >>
        /\ run' = [starts |-> run.starts + 1, started_by |-> "caller"]
        /\ UNCHANGED <<exits, zones, history>>

\* simulate_step(dt_seconds)
SimulateStep ==
    \E dt_seconds \in EvacDtChoices :
        IF state = <<>>
        THEN /\ last_call' = << Call("simulate_step", dt_seconds, TRUE,
                                     not_started_error) >>
             /\ UNCHANGED <<exits, zones, state, history, run>>
        ELSE /\ Len(history) < MaxEvacSteps
             /\ LET r == simulate_step(exits, zones, state[1], dt_seconds)
                IN /\ exits' = r.exits
                   /\ zones' = r.zones
                   /\ state' = << r.state >>
                   /\ history' = Append(history, copy_state(r.state, r.zones))
             /\ last_call' = << Call("simulate_step", dt_seconds, FALSE, "none") >>
             /\ UNCHANGED run

NextEvac ==
    \/ StartEvacuation /\ UNCHANGED <<venue, crowd_state, apiVars, serviceVars>>
    \/ AssignState /\ UNCHANGED <<venue, crowd_state, apiVars, serviceVars>>
    \/ SimulateStep /\ UNCHANGED <<venue, crowd_state, apiVars, serviceVars>>

SpecEvac == InitEvac /\ [][NextEvac]_vars

(***************************************************************************)
(* simulate_timestep as a call: what it raises, and what becomes of the    *)
(* object passed in.  The lookups are those of the source, in its order:   *)
(* state.gate_states[gate_id] for the gates that receive arrivals (line    *)
(* 153) and for every open gate (line 165), state.zone_states[zone_id] for *)
(* the known connected zones of a gate with a queue (line 252) and for     *)
(* every zone of the venue (line 208); max() over no zone at all raises    *)
(* ValueError (line 251).                                                  *)
(***************************************************************************)
arrivals_raise(v, st, arrival_rate, dt_seconds, jitter) ==
    IF st.total_approaching <= 0 THEN "none"
    ELSE IF arrivals_this_step(st, arrival_rate, dt_seconds, jitter) <= 0 THEN "none"
    ELSE LET gates == open_gates(v)
         IN IF \E i \in 1..Len(gates) : gates[i].gate_id \notin DOMAIN st.gate_states
            THEN "KeyError"
            ELSE "none"

\* _calculate_flow_reduction on the zones of a gate, None for unknown ids
flow_reduction_raises(v, st, connected_zones) ==
    LET known == {connected_zones[i] : i \in 1..Len(connected_zones)} \cap ZoneIds(v)
    IN IF Len(connected_zones) = 0 THEN "none"
       ELSE IF known = {} THEN "ValueError"
       ELSE IF \E z \in known : z \notin DOMAIN st.zone_states THEN "KeyError"
       ELSE "none"

RECURSIVE gates_raise(_, _, _, _)
gates_raise(v, st, gates, dt_seconds) ==
    IF gates = <<>> THEN "none"
    ELSE LET gate == Head(gates)
         IN IF ~gate.is_open THEN gates_raise(v, st, Tail(gates), dt_seconds)
            ELSE IF gate.gate_id \notin DOMAIN st.gate_states THEN "KeyError"
            ELSE IF st.gate_states[gate.gate_id].queue_length <= 0
                 THEN gates_raise(v, st, Tail(gates), dt_seconds)
            ELSE IF flow_reduction_raises(v, st, gate.connected_zones) # "none"
                 THEN flow_reduction_raises(v, st, gate.connected_zones)
            ELSE gates_raise(v, gate_step(v, st, gate, dt_seconds), Tail(gates),
                             dt_seconds)

zone_flow_raises(v, st) ==
    IF \E z \in ZoneIds(v) : z \notin DOMAIN st.zone_states THEN "KeyError"
    ELSE "none"

timestep_raises(v, st, dt_seconds, arrival_rate, jitter) ==
    LET new_state == [st EXCEPT !.simulation_time_seconds = @ + dt_seconds]
        in_arrivals == arrivals_raise(v, new_state, arrival_rate, dt_seconds, jitter)
        after_arrivals == process_arrivals(v, new_state, arrival_rate, dt_seconds, jitter)
        in_gates == gates_raise(v, after_arrivals, v.gates, dt_seconds)
    IN IF in_arrivals # "none" THEN in_arrivals
       ELSE IF in_gates # "none" THEN in_gates
       ELSE zone_flow_raises(v, st)

\* A slip at line 106: new_state is the object passed in, not a copy of it.
object_passed_in_aliased(st, new_state) == new_state

\* new_state = state.model_copy(deep=True) (line 106): every write of the
\* step goes to new_state, so the object passed in is after the call what
\* it was before.
object_passed_in(st, new_state) == st

(***************************************************************************)
(* Calls with states supplied by the caller: states made for the venue,    *)
(* and states that lack the entry of one zone or one gate.                 *)
(***************************************************************************)
\* one gate routes to the hall and to a zone the venue does not define; a
\* second gate is closed
VenueAnnex ==
    [zones |-> << Zone("hall", 10, 20, <<>>) >>,
     gates |-> << Gate("main", 6, FALSE, <<"hall", "gone">>, TRUE),
                  Gate("back", 6, FALSE, <<"hall">>, FALSE) >>]

\* the only open gate routes to no zone the venue defines
VenueDeadEnd ==
    [zones |-> << Zone("hall", 10, 20, <<>>) >>,
     gates |-> << Gate("side", 6, FALSE, <<"gone">>, TRUE) >>]

\* every id matches: an open and a closed gate into one zone
VenueLodge ==
    [zones |-> << Zone("hall", 10, 20, <<>>) >>,
     gates |-> << Gate("main", 6, FALSE, <<"hall">>, TRUE),
                  Gate("back", 6, FALSE, <<"hall">>, FALSE) >>]

CallVenues == {VenueAnnex, VenueDeadEnd, VenueLodge}

without_zones(st, ids) ==
    [st EXCEPT !.zone_states = [z \in (DOMAIN st.zone_states) \ ids |-> st.zone_states[z]]]
without_gates(st, ids) ==
    [st EXCEPT !.gate_states = [g \in (DOMAIN st.gate_states) \ ids |-> st.gate_states[g]]]

\* The states a caller supplies for venue v: all entries, or one missing.
SuppliedStates(v) ==
    LET made == {initialize_state(v, n) : n \in Attendances}
    IN made
       \cup {without_zones(st, {z}) : st \in made, z \in ZoneIds(v)}
       \cup {without_gates(st, {g}) : st \in made, g \in GateIds(v)}

InitCall ==
    /\ venue \in CallVenues
    /\ crowd_state \in SuppliedStates(venue)
    /\ run = [steps |-> 0, raised |-> "none", passed_in |-> <<>>, returned |-> <<>>]
    /\ exits = <<>>
    /\ zones = <<>>
    /\ state = <<>>
    /\ history = <<>>
    /\ last_call = <<>>
    /\ simulations = <<>>
    /\ engines = <<>>
    /\ arrival_curves = <<>>
    /\ sockets = <<>>
    /\ facilities = <<>>
    /\ schedule = <<>>

\* One call of simulate_timestep on the caller's state.  The caller keeps
\* the state returned; after a call that raised it still holds the object
\* it passed in.
CallTimestep ==
    \E dt_seconds \in DtChoices, arrival_rate \in ArrivalRates, jitter \in Jitters :
        /\ run.steps < MaxSteps
        /\ LET raised == timestep_raises(venue, crowd_state, dt_seconds,
                                         arrival_rate, jitter)
               new_state ==
                   IF raised = "none"
                   THEN simulate_timestep(venue, crowd_state, dt_seconds,
                                          arrival_rate, jitter)
                   ELSE [crowd_state EXCEPT !.simulation_time_seconds = @ + dt_seconds]
               passed_in == object_passed_in(crowd_state, new_state)
           IN /\ run' = [steps |-> run.steps + 1, raised |-> raised,
                         passed_in |-> << passed_in >>,
                         returned |-> IF raised = "none" THEN << new_state >> ELSE <<>>]
              /\ crowd_state' = IF raised = "none" THEN new_state ELSE passed_in
        /\ UNCHANGED venue

NextCall == CallTimestep /\ UNCHANGED <<evacVars, apiVars, serviceVars>>

SpecCall == InitCall /\ [][NextCall]_vars

(***************************************************************************)
(* The simulation API (routes/simulation.py, websocket.py).  Every handler *)
(* is a coroutine on one event loop: what it does between two awaits is    *)
(* one step of the system.  simulation_step has no await at all, and       *)
(* _run_simulation_step reads _simulations, runs its timesteps and writes  *)
(* back (lines 130-170) before its first await (line 173).                 *)
(***************************************************************************)
\* SCENARIOS: the event of each scenario on a small venue.  arrival_curve
\* is what generate_arrival_curve returned for it: (minute, rate) pairs.
SCENARIOS ==
    [hall |-> [venue |-> VenueHall, expected_attendance |-> MaxAttendance,
               arrival_curve |-> << [minute |-> 0, rate |-> 9],
                                    [minute |-> 1, rate |-> 30] >>,
               initial_occupancy |-> <<>>],
     arena |-> [venue |-> VenueArena, expected_attendance |-> MaxAttendance,
                arrival_curve |-> << [minute |-> 0, rate |-> 30],
                                     [minute |-> 1, rate |-> 9] >>,
                initial_occupancy |-> << [zone_id |-> "stand", count |-> 5],
                                         [zone_id |-> "lawn", count |-> 3] >>]]

\* timesteps executed on one key since its start, when the clients share
\* one run and when they work on two
MaxApiSteps == 6
MaxPairSteps == 2

\* The clients explored: the ids they send, the WebSockets they open and
\* how far they step a run.  "fair" is no scenario (no custom scenario was
\* uploaded to the data store).  Two sockets and the HTTP clients share one
\* run, or one socket and the HTTP clients work on two runs.
Clients ==
    { [ids |-> {"hall", "fair"}, connections |-> {"w1", "w2"},
       steps |-> MaxApiSteps],
      [ids |-> {"hall", "arena"}, connections |-> {"w1"},
       steps |-> MaxPairSteps] }
\* dt_seconds of both drivers
api_dt_seconds == 10

\* initial_occupancy of the scenario, zone by zone (lines 82-87)
RECURSIVE with_initial_occupancy(_, _)
with_initial_occupancy(st, items) ==
    IF items = <<>> THEN st
    ELSE LET item == Head(items)
             st1 == IF item.zone_id \in DOMAIN st.zone_states
                    THEN [st EXCEPT
                            !.zone_states[item.zone_id].current_occupancy = item.count,
                            !.total_inside = @ + item.count,
                            !.total_approaching = @ - item.count]
                    ELSE st
         IN with_initial_occupancy(st1, Tail(items))

\* SimulationState as start_simulation builds it (lines 74-97).  The clock
\* current_time_minutes is kept in seconds.
new_simulation_state(scenario_id, speed) ==
    LET scenario == SCENARIOS[scenario_id]
    IN [event_id |-> scenario_id,
        is_running |-> TRUE,
        is_paused |-> FALSE,
        speed |-> speed,
        current_time_seconds |-> 0,
        crowd_state |-> with_initial_occupancy(
                            initialize_state(scenario.venue, scenario.expected_attendance),
                            scenario.initial_occupancy),
        scenario |-> scenario_id]

\* CrowdSimulationEngine(): its generator, by the number of draws taken.
new_engine == [draws |-> 0]

\* The clock is a sum of floating-point 10/60: after 6, 18 and 24 additions
\* it stands just below the whole minute (0.9999999999999999 after 6).
clock_rounds_below == {60, 180, 240}

\* int(sim_state.current_time_minutes)
current_minute(current_time_seconds) ==
    IF current_time_seconds \in clock_rounds_below
    THEN current_time_seconds \div 60 - 1
    ELSE current_time_seconds \div 60

\* The rate of the first pair with minute <= current_minute < minute + 1
arrival_rate_at(arrival_curve, minute) ==
    LET hits == SelectSeq(arrival_curve, LAMBDA pair : pair.minute = minute)
    IN IF hits = <<>> THEN 0 ELSE hits[1].rate

\* for _ in range(steps): one timestep per round, each on the state the
\* round before left (lines 136-153, 151-168).  draws are the values the
\* engine's generator gives in the rounds that draw.
RECURSIVE run_steps(_, _, _, _, _)
run_steps(sim_state, engine, arrival_curve, v, draws) ==
    IF draws = <<>> THEN [sim_state |-> sim_state, engine |-> engine]
    ELSE LET rate == arrival_rate_at(arrival_curve,
                                     current_minute(sim_state.current_time_seconds))
             stepped ==
                 [sim_state EXCEPT
                    !.crowd_state = simulate_timestep(v, sim_state.crowd_state,
                                                      api_dt_seconds, rate, Head(draws)),
                    !.current_time_seconds = @ + api_dt_seconds]
             drew == IF sim_state.crowd_state.total_approaching > 0 THEN 1 ELSE 0
         IN run_steps(stepped, [engine EXCEPT !.draws = @ + drew], arrival_curve, v,
                      Tail(draws))

\* dict operations
put(dict, key, value) ==
    [k \in (DOMAIN dict) \cup {key} |-> IF k = key THEN value ELSE dict[k]]
\* A slip in reset: the whole dict is cleared.
without_key_cleared(dict, key) == <<>>
without_key(dict, key) ==
    [k \in (DOMAIN dict) \ {key} |-> dict[k]]

\* request.steps and the count of a WebSocket step message
StepCounts == {1, 2}
\* speed of a set_speed message: its default
Speeds == {1}

\* What is remembered of the last operation: the key it named and, for a
\* stepping operation, its driver.
ApiCall(op, key, status) ==
    [key |-> key,
     driver |-> IF op = "step" THEN "http"
                ELSE IF op \in {"ws_step", "ws_auto_step"} THEN "websocket"
                ELSE "none"]

InitApi ==
    /\ simulations = <<>>
    /\ engines = <<>>
    /\ arrival_curves = <<>>
    /\ \E clients \in Clients :
          /\ sockets = [c \in clients.connections |->
                           [event_id |-> "", at |-> "closed"]]
          /\ run = [executed |-> [k \in DOMAIN SCENARIOS |-> 0],
                    ids |-> clients.ids, steps |-> clients.steps]
    /\ last_call = <<>>
    /\ venue = <<>>
    /\ crowd_state = <<>>
    /\ exits = <<>>
    /\ zones = <<>>
    /\ state = <<>>
    /\ history = <<>>
    /\ facilities = <<>>
    /\ schedule = <<>>

\* POST /simulation/start with scenario_id (lines 36-109)
StartSimulation ==
    \E scenario_id \in run.ids :
        IF scenario_id \notin DOMAIN SCENARIOS
        THEN /\ last_call' = << ApiCall("start", scenario_id, 404) >>
             /\ UNCHANGED <<simulations, engines, arrival_curves, sockets, run>>
        ELSE /\ simulations' = put(simulations, scenario_id,
                                   new_simulation_state(scenario_id, 1))
             /\ engines' = put(engines, scenario_id, new_engine)
             /\ arrival_curves' = put(arrival_curves, scenario_id,
                                      SCENARIOS[scenario_id].arrival_curve)
             /\ run' = [run EXCEPT !.executed[scenario_id] = 0]
             /\ last_call' = << ApiCall("start", scenario_id, 200) >>
             /\ UNCHANGED sockets

\* The timesteps of one driver call on the run under event_id: read, step
\* and write back in one piece.
StepsOn(event_id, steps) ==
    /\ run.executed[event_id] + steps <= run.steps
    /\ \E draws \in [1..steps -> Jitters] :
          LET sim_state == simulations[event_id]
              r == run_steps(sim_state, engines[event_id], arrival_curves[event_id],
                             SCENARIOS[sim_state.scenario].venue, draws)
          IN /\ simulations' = put(simulations, event_id, r.sim_state)
             /\ engines' = put(engines, event_id, r.engine)
    /\ run' = [run EXCEPT !.executed[event_id] = @ + steps]
    /\ UNCHANGED arrival_curves

\* POST /simulation/step/{event_id} (lines 112-169)
SimulationStep ==
    \E event_id \in run.ids, steps \in StepCounts :
        IF event_id \notin DOMAIN simulations
        THEN /\ last_call' = << ApiCall("step", event_id, 404) >>
             /\ UNCHANGED <<simulations, engines, arrival_curves, sockets, run>>
        ELSE /\ StepsOn(event_id, steps)
             /\ last_call' = << ApiCall("step", event_id, 200) >>
             /\ UNCHANGED sockets

\* POST /simulation/stop/{event_id} (lines 197-204)
StopSimulation ==
    \E event_id \in run.ids :
        IF event_id \notin DOMAIN simulations
        THEN /\ last_call' = << ApiCall("stop", event_id, 404) >>
             /\ UNCHANGED <<simulations, engines, arrival_curves, sockets, run>>
        ELSE /\ simulations' = [simulations EXCEPT ![event_id].is_running = FALSE]
             /\ last_call' = << ApiCall("stop", event_id, 200) >>
             /\ UNCHANGED <<engines, arrival_curves, sockets, run>>

\* POST /simulation/reset/{event_id} (lines 207-217)
ResetSimulation ==
    \E event_id \in run.ids :
        /\ simulations' = without_key(simulations, event_id)
        /\ engines' = without_key(engines, event_id)
        /\ arrival_curves' = without_key(arrival_curves, event_id)
        /\ run' = IF event_id \in DOMAIN run.executed
                  THEN [run EXCEPT !.executed[event_id] = 0] ELSE run
        /\ last_call' = << ApiCall("reset", event_id, 200) >>
        /\ UNCHANGED sockets

\* A client opens the WebSocket of event_id: accepted and listening
\* (lines 73-87).
WsConnect ==
    \E c \in DOMAIN sockets, event_id \in run.ids :
        /\ sockets[c].at = "closed"
        /\ sockets' = [sockets EXCEPT ![c] = [event_id |-> event_id, at |-> "receiving"]]
        /\ last_call' = << ApiCall("ws_connect", event_id, 101) >>
        /\ UNCHANGED <<simulations, engines, arrival_curves, run>>

\* set_speed, pause and resume messages (lines 89-105)
WsControl ==
    \E c \in DOMAIN sockets, type \in {"set_speed", "pause", "resume"}, speed \in Speeds :
        LET event_id == sockets[c].event_id
        IN /\ sockets[c].at = "receiving"
           /\ simulations' =
                 IF event_id \notin DOMAIN simulations THEN simulations
                 ELSE IF type = "set_speed"
                      THEN [simulations EXCEPT ![event_id].speed = speed]
                 ELSE [simulations EXCEPT ![event_id].is_paused = (type = "pause")]
           /\ last_call' = << ApiCall(type, event_id, 101) >>
           /\ UNCHANGED <<engines, arrival_curves, sockets, run>>

\* A step message (lines 107-111) and _run_simulation_step up to its first
\* await (lines 130-173): the handler is then sending the updates.
WsStep ==
    \E c \in DOMAIN sockets, count \in StepCounts :
        LET event_id == sockets[c].event_id
        IN /\ sockets[c].at = "receiving"
           /\ IF event_id \in DOMAIN simulations /\ event_id \in DOMAIN engines
              THEN /\ StepsOn(event_id, count)
                   /\ sockets' = [sockets EXCEPT ![c].at = "sending"]
              ELSE UNCHANGED <<simulations, engines, arrival_curves, sockets, run>>
           /\ last_call' = << ApiCall("ws_step", event_id, 101) >>

\* No message within the timeout: one step when the run is running and not
\* paused (lines 113-118).
WsAutoStep ==
    \E c \in DOMAIN sockets :
        LET event_id == sockets[c].event_id
        IN /\ sockets[c].at = "receiving"
           /\ event_id \in DOMAIN simulations
           /\ simulations[event_id].is_running /\ ~simulations[event_id].is_paused
           /\ event_id \in DOMAIN engines
           /\ StepsOn(event_id, 1)
           /\ sockets' = [sockets EXCEPT ![c].at = "sleeping"]
           /\ last_call' = << ApiCall("ws_auto_step", event_id, 101) >>

\* The updates are sent (lines 173-194), and after an auto-step the
\* handler has slept 1 / speed (line 120): it listens again.
WsResume ==
    \E c \in DOMAIN sockets :
        /\ sockets[c].at \in {"sending", "sleeping"}
        /\ sockets' = [sockets EXCEPT ![c].at = "receiving"]
        /\ last_call' = << ApiCall("ws_resume", sockets[c].event_id, 101) >>
        /\ UNCHANGED <<simulations, engines, arrival_curves, run>>

\* WebSocketDisconnect at an await (lines 122-123)
WsDisconnect ==
    \E c \in DOMAIN sockets :
        /\ sockets[c].at # "closed"
        /\ sockets' = [sockets EXCEPT ![c] = [event_id |-> "", at |-> "closed"]]
        /\ last_call' = << ApiCall("ws_disconnect", sockets[c].event_id, 101) >>
        /\ UNCHANGED <<simulations, engines, arrival_curves, run>>

engineVars == <<venue, crowd_state, exits, zones, state, history, serviceVars>>

NextApi ==
    \/ StartSimulation /\ UNCHANGED engineVars
    \/ SimulationStep /\ UNCHANGED engineVars
    \/ StopSimulation /\ UNCHANGED engineVars
    \/ ResetSimulation /\ UNCHANGED engineVars
    \/ WsConnect /\ UNCHANGED engineVars
    \/ WsControl /\ UNCHANGED engineVars
    \/ WsStep /\ UNCHANGED engineVars
    \/ WsAutoStep /\ UNCHANGED engineVars
    \/ WsResume /\ UNCHANGED engineVars
    \/ WsDisconnect /\ UNCHANGED engineVars

SpecApi == InitApi /\ [][NextApi]_vars

(***************************************************************************)
(* FacilitySimulator (engine/facilities.py): queues at restrooms, food     *)
(* courts and the like.  Times are whole seconds, demand multipliers are   *)
(* in tenths, arrival rates per mille of the zone's population per minute. *)
(***************************************************************************)
Facility(facility_id, facility_type, location, capacity, service_time_avg, current_queue, is_operational) ==
    [facility_id |-> facility_id, facility_type |-> facility_type,
     location |-> location, capacity |-> capacity,
     service_time_avg |-> service_time_avg, current_queue |-> current_queue,
     total_served |-> 0, is_operational |-> is_operational]

\* DEMAND_MULTIPLIERS.get(event_phase, 1.0), in tenths
demand_mult_x10(event_phase) ==
    CASE event_phase = "pre_event" -> 5
      [] event_phase = "entry" -> 10
      [] event_phase = "event_start" -> 3
      [] event_phase = "halftime" -> 50
      [] event_phase = "intermission" -> 40
      [] event_phase = "event_end" -> 5
      [] event_phase = "exit" -> 2
      [] OTHER -> 10

\* The share of the zone's population arriving per minute (lines 122-129)
base_rate_per_mille(facility_type) ==
    IF facility_type \in {"restroom_male", "restroom_female"} THEN 2
    ELSE IF facility_type = "food_court" THEN 5
    ELSE 1

\* int(base_rate * demand_mult * uniform), the draw being in hundredths
facility_arrivals(zone_pop, facility_type, event_phase, dt_seconds, draw_x100) ==
    (zone_pop * base_rate_per_mille(facility_type) * dt_seconds
        * demand_mult_x10(event_phase) * draw_x100) \div (1000 * 60 * 10 * 100)

\* A slip in the ceiling below: a full batch is served whatever the queue.
completions_uncapped(f, arrivals, dt_seconds) ==
    (f.capacity * dt_seconds) \div f.service_time_avg

\* int(min(queue + arrivals, service_rate * (dt_seconds / 60))) with
\* service_rate = capacity * 60 / service_time_avg (lines 134-138)
completions(f, arrivals, dt_seconds) ==
    Min(f.current_queue + arrivals, (f.capacity * dt_seconds) \div f.service_time_avg)

\* round(x, 1) of the fraction num / den, in tenths (halves go to even)
round_x10(num, den) ==
    LET twice == (20 * num) \div den
        exact == (20 * num) % den = 0
        down == twice \div 2
    IN IF twice % 2 = 0 THEN down
       ELSE IF exact /\ down % 2 = 0 THEN down
       ELSE down + 1

\* The FacilityState of lines 144-165 for a facility after its update
facility_state(f, served, dt_seconds) ==
    LET wait_num == f.current_queue * f.service_time_avg
        wait_den == 60 * f.capacity
        max_num == f.capacity * dt_seconds
    IN [facility_id |-> f.facility_id,
        current_queue |-> f.current_queue,
        wait_time_minutes_x10 |-> round_x10(wait_num, wait_den),
        utilization_percent_x10 |->
            IF max_num > 0
            THEN Min(1000, round_x10(served * 100 * f.service_time_avg, max_num))
            ELSE 0,
        status |-> IF wait_num > 15 * wait_den THEN "overcrowded"
                   ELSE IF wait_num > 7 * wait_den THEN "busy"
                   ELSE "normal"]

population(zone_populations, location) ==
    IF location \in DOMAIN zone_populations THEN zone_populations[location] ELSE 0

\* The loop over self.facilities (lines 114-165) from facility i on: the
\* facilities as updated, the states collected, the arrivals drawn, and the
\* error that ended the loop.  The queue and total_served of a facility are
\* written (lines 141-142) before its wait time is computed (line 145).
RECURSIVE facility_loop(_, _, _, _, _, _, _, _)
facility_loop(fs, i, event_phase, zone_populations, dt_seconds, draws, states, arrived) ==
    IF i > Len(fs)
    THEN [facilities |-> fs, states |-> states, arrivals |-> arrived, raised |-> "none"]
    ELSE IF ~fs[i].is_operational
    THEN facility_loop(fs, i + 1, event_phase, zone_populations, dt_seconds, draws,
                       states, Append(arrived, 0))
    ELSE IF fs[i].service_time_avg = 0
    THEN [facilities |-> fs, states |-> states, arrivals |-> arrived,
          raised |-> "ZeroDivisionError"]
    ELSE LET f == fs[i]
             arrivals == facility_arrivals(population(zone_populations, f.location),
                                           f.facility_type, event_phase, dt_seconds,
                                           draws[i])
             served == completions(f, arrivals, dt_seconds)
             f1 == [f EXCEPT
                      !.current_queue = Max(0, f.current_queue + arrivals - served),
                      !.total_served = @ + served]
             fs1 == [fs EXCEPT ![i] = f1]
         IN IF f.capacity = 0
            THEN [facilities |-> fs1, states |-> states,
                  arrivals |-> Append(arrived, arrivals),
                  raised |-> "ZeroDivisionError"]
            ELSE facility_loop(fs1, i + 1, event_phase, zone_populations, dt_seconds,
                               draws,
                               Append(states, facility_state(f1, served, dt_seconds)),
                               Append(arrived, arrivals))

\* {s.facility_id: s.current_queue for s in states} (lines 167-171)
queue_record(states) ==
    [i \in 1..Len(states) |->
        [facility_id |-> states[i].facility_id, current_queue |-> states[i].current_queue]]

(***************************************************************************)
(* The concourses explored                                                 *)
(***************************************************************************)
\* restrooms and a food court, and a cash machine out of service
ConcourseNorth ==
    << Facility("wc_m", "restroom_male", "north", 2, 90, 0, TRUE),
       Facility("wc_f", "restroom_female", "north", 1, 180, 2, TRUE),
       Facility("atm", "atm", "south", 1, 90, 3, FALSE),
       Facility("food", "food_court", "south", 3, 180, 0, TRUE) >>

\* a merchandise stand with no counter staffed, between two facilities
ConcourseSouth ==
    << Facility("grill", "food_stall", "south", 1, 120, 1, TRUE),
       Facility("stand", "merchandise", "south", 0, 300, 2, TRUE),
       Facility("aid", "first_aid", "north", 1, 600, 0, TRUE) >>

Concourses == {ConcourseNorth, ConcourseSouth}

MaxFacilitySteps == 2
EventPhases == {"entry", "halftime", "encore"}
ZonePopulations == {[north |-> 1000, south |-> 400], [north |-> 250]}
FacilityDtChoices == {30, 60}
\* np.random.uniform(0.8, 1.2), in hundredths
UniformDraws == {80, 119}

InitFacility ==
    /\ facilities \in Concourses
    /\ history = <<>>
    /\ last_call = <<>>
    /\ run = [steps |-> 0]
    /\ venue = <<>>
    /\ crowd_state = <<>>
    /\ exits = <<>>
    /\ zones = <<>>
    /\ state = <<>>
    /\ simulations = <<>>
    /\ engines = <<>>
    /\ arrival_curves = <<>>
    /\ sockets = <<>>
    /\ schedule = <<>>

\* FacilitySimulator.simulate_step(current_time, event_phase,
\* zone_populations, dt_seconds).  A step that raises keeps the writes it
\* made and records no history.
FacilityStep ==
    \E event_phase \in EventPhases, zone_populations \in ZonePopulations,
       dt_seconds \in FacilityDtChoices,
       draws \in [1..Len(facilities) -> UniformDraws] :
        /\ run.steps < MaxFacilitySteps
        /\ LET r == facility_loop(facilities, 1, event_phase, zone_populations,
                                  dt_seconds, draws, <<>>, <<>>)
           IN /\ facilities' = r.facilities
              /\ history' = IF r.raised = "none"
                            THEN Append(history, queue_record(r.states))
                            ELSE history
              /\ last_call' = << [op |-> "simulate_step", dt_seconds |-> dt_seconds,
                                  arrivals |-> r.arrivals, raised |-> r.raised,
                                  returned |-> IF r.raised = "none"
                                               THEN r.states ELSE <<>>] >>
        /\ run' = [steps |-> run.steps + 1]

NextFacility ==
    FacilityStep /\ UNCHANGED <<venue, crowd_state, exits, zones, state, apiVars, schedule>>

SpecFacility == InitFacility /\ [][NextFacility]_vars

(***************************************************************************)
(* One restroom stepped twice from the same queue with the same inputs,    *)
(* once in the entry phase and once at halftime.                           *)
(***************************************************************************)
\* female restrooms of a stand: 15 stalls, 3 minutes each
RestroomBlock == << Facility("wc", "restroom_female", "north", 15, 180, 0, TRUE) >>

RestroomPopulations == {0, 100, 400, 500, 1000, 2500}
RestroomDraws == {80, 100, 119}

InitRestroom ==
    /\ facilities = RestroomBlock
    /\ history = <<>>
    /\ last_call = <<>>
    /\ run = [steps |-> 0]
    /\ venue = <<>>
    /\ crowd_state = <<>>
    /\ exits = <<>>
    /\ zones = <<>>
    /\ state = <<>>
    /\ simulations = <<>>
    /\ engines = <<>>
    /\ arrival_curves = <<>>
    /\ sockets = <<>>
    /\ schedule = <<>>

\* simulate_step(t, "halftime", ...) on the simulator, and beside it what
\* simulate_step(t, "entry", ...) makes of the same facilities and inputs.
RestroomStep ==
    \E zone_pop \in RestroomPopulations, dt_seconds \in FacilityDtChoices,
       draw \in RestroomDraws :
        /\ run.steps < MaxFacilitySteps
        /\ LET zone_populations == [north |-> zone_pop]
               draws == [i \in 1..Len(facilities) |-> draw]
               at_halftime == facility_loop(facilities, 1, "halftime", zone_populations,
                                            dt_seconds, draws, <<>>, <<>>)
               at_entry == facility_loop(facilities, 1, "entry", zone_populations,
                                         dt_seconds, draws, <<>>, <<>>)
           IN /\ facilities' = at_halftime.facilities
              /\ history' = Append(history, queue_record(at_halftime.states))
              /\ last_call' = << [op |-> "simulate_step", zone_pop |-> zone_pop,
                                  dt_seconds |-> dt_seconds, draw |-> draw,
                                  halftime |-> at_halftime.arrivals,
                                  entry |-> at_entry.arrivals] >>
        /\ run' = [steps |-> run.steps + 1]

NextRestroom ==
    RestroomStep /\ UNCHANGED <<venue, crowd_state, exits, zones, state, apiVars, schedule>>

SpecRestroom == InitRestroom /\ [][NextRestroom]_vars

(***************************************************************************)
(* TransportSimulator.predict_exit_surge (engine/transport.py).  Times are *)
(* minutes of the day.                                                     *)
(***************************************************************************)
TransportService(transport_type, scheduled_time, capacity, expected_passengers, walking_time_to_venue) ==
    [transport_type |-> transport_type, scheduled_time |-> scheduled_time,
     capacity |-> capacity, expected_passengers |-> expected_passengers,
     walking_time_to_venue |-> walking_time_to_venue]

TransportType == {"lrt", "bus", "private", "taxi", "walking"}

\* The services that reach the venue within the window, both ends included
\* (lines 121-127)
arriving(services, current_time, window_minutes) ==
    SelectSeq(services, LAMBDA s :
        /\ current_time <= s.scheduled_time + s.walking_time_to_venue
        /\ s.scheduled_time + s.walking_time_to_venue <= current_time + window_minutes)

\* arrival_times.sort(key=time), a stable sort: the position of entry i
earlier_than(entries, i, j) ==
    \/ entries[i].time < entries[j].time
    \/ entries[i].time = entries[j].time /\ i < j

\* The busiest instant, the passengers of the services that arrive at the
\* same instant added up (the earliest on a tie)
peak_of_instants(entries) ==
    LET at(t) == SumSeq([k \in 1..Len(entries) |->
                           IF entries[k].time = t THEN entries[k].passengers ELSE 0])
        first == CHOOSE i \in 1..Len(entries) :
                    \A j \in 1..Len(entries) :
                        \/ at(entries[j].time) < at(entries[i].time)
                        \/ /\ at(entries[j].time) = at(entries[i].time)
                           /\ entries[i].time <= entries[j].time
    IN entries[first].time

\* max(arrival_times, key=passengers)[0] after the sort: the time of the
\* entry with the most passengers, the earliest such entry on a tie
peak_of(entries) ==
    LET first == CHOOSE i \in 1..Len(entries) :
                    \A j \in 1..Len(entries) :
                        \/ j = i
                        \/ entries[j].passengers < entries[i].passengers
                        \/ /\ entries[j].passengers = entries[i].passengers
                           /\ earlier_than(entries, i, j)
    IN entries[first].time

\* _generate_arrival_recommendation: which message, if any
arrival_recommendation(total, by_transport, peak_time) ==
    IF total < 500 THEN "none"
    ELSE IF total > 3000 THEN "open_all_gates"
    ELSE IF total > 1500 /\ 10 * by_transport["lrt"] > 7 * total /\ peak_time # <<>>
         THEN "lrt_surge"
    ELSE "none"

\* A slip in the window below: a service arriving at its very end is left out.
calculate_arrival_wave_open(sched, current_time, window_minutes) ==
    LET hits == arriving(sched.services, current_time, window_minutes - 1)
        by_transport ==
            [t \in TransportType |->
                SumSeq([k \in 1..Len(hits) |->
                          IF hits[k].transport_type = t
                          THEN hits[k].expected_passengers ELSE 0])]
        total == SumSeq([k \in 1..Len(hits) |-> hits[k].expected_passengers])
    IN [total_arrivals |-> total,
        arrivals_by_transport |-> by_transport,
        peak_arrival_time |-> <<>>,
        recommended_action |-> "none"]

\* calculate_arrival_wave (lines 116-149)
calculate_arrival_wave(sched, current_time, window_minutes) ==
    LET hits == arriving(sched.services, current_time, window_minutes)
        by_transport ==
            [t \in TransportType |->
                SumSeq([k \in 1..Len(hits) |->
                          IF hits[k].transport_type = t
                          THEN hits[k].expected_passengers ELSE 0])]
        arrival_times ==
            [k \in 1..Len(hits) |->
                [time |-> hits[k].scheduled_time + hits[k].walking_time_to_venue,
                 passengers |-> hits[k].expected_passengers]]
        total == by_transport["lrt"] + by_transport["bus"] + by_transport["private"]
                 + by_transport["taxi"] + by_transport["walking"]
        peak_time == IF hits # <<>> THEN << peak_of(arrival_times) >> ELSE <<>>
    IN [total_arrivals |-> total,
        arrivals_by_transport |-> by_transport,
        peak_arrival_time |-> peak_time,
        recommended_action |-> arrival_recommendation(total, by_transport, peak_time)]

\* The LRT services leaving within the exit window (lines 165-169)
post_event_services(services, event_end_time, exit_duration_minutes) ==
    SelectSeq(services, LAMBDA s :
        /\ s.transport_type = "lrt"
        /\ event_end_time <= s.scheduled_time
        /\ s.scheduled_time <= event_end_time + exit_duration_minutes)

\* predict_exit_surge with the capacity warning added after the staggered
\* releases instead of before them.
predict_exit_surge_appended(sched, event_end_time, total_attendees, exit_duration_minutes) ==
    LET post == post_event_services(sched.services, event_end_time,
                                    exit_duration_minutes)
        lrt_capacity_total == SumSeq([i \in 1..Len(post) |-> post[i].capacity])
        first == SubSeq(post, 1, Min(5, Len(post)))
        staggered == [i \in 1..Len(first) |->
                [time |-> first[i].scheduled_time - (sched.lrt_walking_time + 3),
                 priority |-> IF i = 1 THEN "high" ELSE "medium",
                 action |-> IF i = 1 THEN "open_south_exits"
                                     ELSE "release_next_section"]]
    IN IF post = <<>>
       THEN [raised |-> "none", returned |->
                << [time |-> event_end_time, priority |-> "critical",
                    action |-> "extend_lrt_hours"] >>]
       ELSE IF total_attendees = 0
       THEN [raised |-> "ZeroDivisionError", returned |-> <<>>]
       ELSE [raised |-> "none", returned |->
                 IF 100 * lrt_capacity_total < 48 * total_attendees
                 THEN staggered \o << [time |-> event_end_time, priority |-> "critical",
                         action |-> "request_additional_lrt"] >>
                 ELSE staggered]

\* predict_exit_surge: the error raised, or the recommendations in order,
\* each with its time, priority and the kind of action it asks for.
\* lrt_passengers_ratio = min(1.0, capacity / (attendees * 0.6)) divides by
\* 0.0 when total_attendees is 0; the ratio is below 0.8 exactly when
\* capacity < 0.48 x attendees.
predict_exit_surge(sched, event_end_time, total_attendees, exit_duration_minutes) ==
    LET post == post_event_services(sched.services, event_end_time,
                                    exit_duration_minutes)
        lrt_capacity_total == SumSeq([i \in 1..Len(post) |-> post[i].capacity])
        first == SubSeq(post, 1, Min(5, Len(post)))
        staggered == [i \in 1..Len(first) |->
                [time |-> first[i].scheduled_time - (sched.lrt_walking_time + 3),
                 priority |-> IF i = 1 THEN "high" ELSE "medium",
                 action |-> IF i = 1 THEN "open_south_exits"
                                     ELSE "release_next_section"]]
    IN IF post = <<>>
       THEN [raised |-> "none", returned |->
                << [time |-> event_end_time, priority |-> "critical",
                    action |-> "extend_lrt_hours"] >>]
       ELSE IF total_attendees = 0
       THEN [raised |-> "ZeroDivisionError", returned |-> <<>>]
       ELSE [raised |-> "none", returned |->
                 IF 100 * lrt_capacity_total < 48 * total_attendees
                 THEN << [time |-> event_end_time, priority |-> "critical",
                         action |-> "request_additional_lrt"] >> \o staggered
                 ELSE staggered]

\* The schedules explored: three trains and a bus (the bus and the second
\* train reach the venue together), one late train, the seven trains that
\* add_lrt_schedule makes for 22:00 to 22:24 at the peak frequency of 4
\* minutes, and a bus with a taxi.
Schedules ==
    { [services |-> << TransportService("lrt", 1320, 1200, 840, 5),
                       TransportService("bus", 1323, 50, 500, 10),
                       TransportService("lrt", 1328, 1200, 700, 5),
                       TransportService("lrt", 1330, 1200, 1140, 5) >>,
       lrt_walking_time |-> 5],
      [services |-> << TransportService("lrt", 1350, 300, 210, 8) >>,
       lrt_walking_time |-> 8],
      [services |-> [i \in 1..7 |->
                        TransportService("lrt", 1316 + 4 * i, 1200, 1140, 5)],
       lrt_walking_time |-> 5],
      [services |-> << TransportService("bus", 1330, 50, 35, 10),
                       TransportService("taxi", 1330, 4, 0, 2) >>,
       lrt_walking_time |-> 5] }

MaxCalls == 2
EventEndTimes == {1310, 1320, 1330}
TotalAttendees == {0, 600, 2500, 5000, 8000}
ExitDurations == {10, 45}

InitTransport ==
    /\ schedule \in Schedules
    /\ last_call = <<>>
    /\ run = [calls |-> 0]
    /\ venue = <<>>
    /\ crowd_state = <<>>
    /\ exits = <<>>
    /\ zones = <<>>
    /\ state = <<>>
    /\ history = <<>>
    /\ simulations = <<>>
    /\ engines = <<>>
    /\ arrival_curves = <<>>
    /\ sockets = <<>>
    /\ facilities = <<>>

\* predict_exit_surge(event_end_time, total_attendees, exit_duration_minutes)
PredictExitSurge ==
    \E event_end_time \in EventEndTimes, total_attendees \in TotalAttendees,
       exit_duration_minutes \in ExitDurations :
        /\ run.calls < MaxCalls
        /\ LET r == predict_exit_surge(schedule, event_end_time, total_attendees,
                                       exit_duration_minutes)
           IN last_call' = << [op |-> "predict_exit_surge",
                               event_end_time |-> event_end_time,
                               total_attendees |-> total_attendees,
                               exit_duration_minutes |-> exit_duration_minutes,
                               raised |-> r.raised, returned |-> r.returned] >>
        /\ run' = [calls |-> run.calls + 1]
        /\ UNCHANGED schedule

WaveWindows == {5, 15, 25}

\* calculate_arrival_wave(current_time, window_minutes)
CalculateArrivalWave ==
    \E current_time \in EventEndTimes, window_minutes \in WaveWindows :
        /\ run.calls < MaxCalls
        /\ last_call' = << [op |-> "calculate_arrival_wave",
                            current_time |-> current_time,
                            window_minutes |-> window_minutes,
                            raised |-> "none",
                            returned |-> calculate_arrival_wave(schedule, current_time,
                                                                window_minutes)] >>
        /\ run' = [calls |-> run.calls + 1]
        /\ UNCHANGED schedule

NextTransport ==
    \/ PredictExitSurge
        /\ UNCHANGED <<venue, crowd_state, exits, zones, state, history, apiVars, facilities>>
    \/ CalculateArrivalWave
        /\ UNCHANGED <<venue, crowd_state, exits, zones, state, history, apiVars, facilities>>

SpecTransport == InitTransport /\ [][NextTransport]_vars

(***************************************************************************)
(* generate_arrival_curve (engine/simulation.py).  The window is its       *)
(* length in whole minutes, (event_start - gates_open) / 60 s.  A rate is  *)
(* the exact quotient num / den of the float the code returns.             *)
(***************************************************************************)
ArrivalPatterns == {"normal", "early_rush", "late_surge", "wave"}
CurveDurations == {0, 1, 2, 4}
MaxCurveTotal == 8

\* truncnorm.pdf(minutes, a, b, peak, std) at the minutes 0..duration, in
\* millionths of exp(0) and without the factor 1 / (std * (Phi(b) - Phi(a)))
\* that all minutes of one curve share and that curve / curve.sum() cancels:
\* exp(-z^2 / 2) with z = (minute - peak) / std, and for the wave pattern
\* 0.3, 0.4 and 0.3 times the densities around 30%, 50% and 70% of the
\* window with std 20.  The other patterns have std = 0 on an empty window.
truncnorm_pdf ==
    "normal"   :> (1 :> <<135335, 135335>> @@ 2 :> <<135335, 1000000, 135335>> @@ 4 :> <<135335, 606531, 1000000, 606531, 135335>>) @@
    "early_rush" :> (1 :> <<135335, 19>> @@ 2 :> <<135335, 411112, 19>> @@ 4 :> <<135335, 945959, 411112, 11109, 19>>) @@
    "late_surge" :> (1 :> <<0, 135335>> @@ 2 :> <<0, 11109, 135335>> @@ 4 :> <<0, 0, 11109, 882497, 135335>>) @@
    "wave"     :> (0 :> <<1000000>> @@ 1 :> <<999658, 999658>> @@ 2 :> <<998631, 999880, 998631>> @@ 4 :> <<994540, 998273, 999520, 998273, 994540>>)

\* generate_arrival_curve(total_attendees, gates_open, event_start, pattern):
\* peak / std divides by 0.0 when the window is empty, except for the wave
\* pattern, whose std is the constant 20.
generate_arrival_curve(total_attendees, duration_minutes, pattern) ==
    IF pattern # "wave" /\ duration_minutes = 0
    THEN [raised |-> "ZeroDivisionError", returned |-> <<>>]
    ELSE LET curve == truncnorm_pdf[pattern][duration_minutes]
             curve_sum == SumSeq(curve)
         IN [raised |-> "none", returned |->
                [i \in 1..Len(curve) |->
                    [minute |-> i - 1,
                     rate |-> [num |-> curve[i] * total_attendees,
                               den |-> curve_sum]]]]

InitCurve ==
    /\ last_call = <<>>
    /\ run = [calls |-> 0]
    /\ venue = <<>>
    /\ crowd_state = <<>>
    /\ exits = <<>>
    /\ zones = <<>>
    /\ state = <<>>
    /\ history = <<>>
    /\ simulations = <<>>
    /\ engines = <<>>
    /\ arrival_curves = <<>>
    /\ sockets = <<>>
    /\ facilities = <<>>
    /\ schedule = <<>>

\* One call of generate_arrival_curve.
GenerateArrivalCurve ==
    \E total_attendees \in 0..MaxCurveTotal, duration_minutes \in CurveDurations,
       pattern \in ArrivalPatterns :
        /\ run.calls < MaxCalls
        /\ LET r == generate_arrival_curve(total_attendees, duration_minutes, pattern)
           IN last_call' = << [op |-> "generate_arrival_curve",
                               total_attendees |-> total_attendees,
                               duration_minutes |-> duration_minutes,
                               pattern |-> pattern,
                               raised |-> r.raised, returned |-> r.returned] >>
        /\ run' = [calls |-> run.calls + 1]

NextCurve ==
    GenerateArrivalCurve
        /\ UNCHANGED <<venue, crowd_state, exits, zones, state, history, apiVars, serviceVars>>

SpecCurve == InitCurve /\ [][NextCurve]_vars

(***************************************************************************)
(* Measures of one step, for the statements below.                         *)
(***************************************************************************)
Counters(st) ==
    st.total_approaching + st.total_queuing + st.total_inside + st.total_exited

\* People put into zone `into` by the gates in _process_gates (lines 187-192).
RECURSIVE times_listed(_, _)
times_listed(ids, id) ==
    IF ids = <<>> THEN 0
    ELSE (IF Head(ids) = id THEN 1 ELSE 0) + times_listed(Tail(ids), id)

RECURSIVE gate_inflow(_, _, _, _, _)
gate_inflow(v, st, gates, dt_seconds, into) ==
    IF gates = <<>> THEN 0
    ELSE LET gate == Head(gates)
             actual == gate_admits(v, st, gate, dt_seconds)
             per_zone == IF Len(gate.connected_zones) > 0 /\ actual > 0
                         THEN actual \div Len(gate.connected_zones) ELSE 0
         IN times_listed(gate.connected_zones, into) * per_zone
            + gate_inflow(v, gate_step(v, st, gate, dt_seconds), Tail(gates),
                          dt_seconds, into)

\* People moved into zone `into` by _process_zone_flow (lines 223-240).
RECURSIVE target_inflow(_, _, _, _, _, _, _)
target_inflow(st, zone_id, targets, n_connected, reduction_x10, dt_seconds, into) ==
    IF targets = <<>> THEN 0
    ELSE LET target == Head(targets)
             st1 == flow_to_targets(st, zone_id, <<target>>, n_connected,
                                    reduction_x10, dt_seconds)
             moved == st.zone_states[zone_id].current_occupancy
                      - st1.zone_states[zone_id].current_occupancy
         IN (IF target.zone_id = into /\ target.zone_id # zone_id THEN moved ELSE 0)
            + target_inflow(st1, zone_id, Tail(targets), n_connected,
                            reduction_x10, dt_seconds, into)

RECURSIVE diffusion_inflow(_, _, _, _, _)
diffusion_inflow(v, st, zs, dt_seconds, into) ==
    IF zs = <<>> THEN 0
    ELSE LET zone == Head(zs)
             connected == connected_targets(v, zone)
             here == IF st.zone_states[zone.zone_id].current_occupancy <= 0
                        \/ connected = <<>>
                     THEN 0
                     ELSE target_inflow(st, zone.zone_id, connected, Len(connected),
                              get_density_reduction(st.zone_states[zone.zone_id].density),
                              dt_seconds, into)
         IN here + diffusion_inflow(v, zone_flow_step(v, st, zone, dt_seconds),
                                    Tail(zs), dt_seconds, into)

\* Everyone who enters zone `into` in one simulate_timestep on st.
zone_inflow(v, st, dt_seconds, arrival_rate, jitter, into) ==
    LET new_state == [st EXCEPT !.simulation_time_seconds = @ + dt_seconds]
        after_arrivals == process_arrivals(v, new_state, arrival_rate, dt_seconds, jitter)
        after_gates == process_gates(v, after_arrivals, dt_seconds)
    IN gate_inflow(v, after_arrivals, v.gates, dt_seconds, into)
       + diffusion_inflow(v, after_gates, v.zones, dt_seconds, into)

\* Capacity of the open gates that list the zone, people per minute.
open_gate_capacity_into(v, zone_id) ==
    SumSeq([i \in 1..Len(v.gates) |->
              IF v.gates[i].is_open /\ times_listed(v.gates[i].connected_zones, zone_id) > 0
              THEN v.gates[i].capacity_per_minute ELSE 0])

(***************************************************************************)
(* Statements about CrowdSimulationEngine                                  *)
(***************************************************************************)

\* C1 (conservation): in every state of a run, approaching + queuing +
\* inside + exited equals the expected attendance the run was created with.
C1_Conservation ==
    Counters(crowd_state) = run.expected_attendance

\* C1 witness: people are at once approaching, queuing and inside after
\* several steps.
C1_Witness ==
    /\ run.steps >= 2
    /\ crowd_state.total_approaching > 0
    /\ crowd_state.total_queuing > 0
    /\ crowd_state.total_inside > 0

\* C2 (capacity bound), as claimed: with one fixed dt, every zone holds at
\* most its capacity plus what its open gates can admit in one step.
C2_CapacityBound ==
    \A dt \in run.dts :
        run.dts = {dt} =>
            \A i \in 1..Len(venue.zones) :
                60 * (crowd_state.zone_states[venue.zones[i].zone_id].current_occupancy
                      - venue.zones[i].capacity)
                    <= dt * open_gate_capacity_into(venue, venue.zones[i].zone_id)

\* C3 (non-negativity): no counter, queue or occupancy is ever negative.
C3_NonNegative ==
    /\ crowd_state.total_inside >= 0
    /\ crowd_state.total_queuing >= 0
    /\ crowd_state.total_approaching >= 0
    /\ crowd_state.total_exited >= 0
    /\ \A g \in GateIds(venue) : crowd_state.gate_states[g].queue_length >= 0
    /\ \A z \in ZoneIds(venue) : crowd_state.zone_states[z].current_occupancy >= 0

\* C3 witness: a gate has admitted its whole queue (the queue, not the
\* capacity, bounded its throughput) while another still holds a queue and
\* a zone is occupied.
C3_Witness ==
    /\ \E g \in GateIds(venue) :
          /\ crowd_state.gate_states[g].queue_length = 0
          /\ crowd_state.gate_states[g].throughput_rate.num > 0
    /\ \E z \in ZoneIds(venue) : crowd_state.zone_states[z].current_occupancy > 0
    /\ crowd_state.total_queuing > 0

\* C10 (flow throttling), as claimed: a zone at or above the dangerous
\* density receives strictly fewer people in a step than it would receive
\* at a comfortable density, all else equal, when the latter is positive.
C10_Throttling ==
    \A z \in ZoneIds(venue) :
        ~DensityBelow(crowd_state.zone_states[z].density, density_dangerous_x10) =>
            \A dt \in DtChoices, rate \in ArrivalRates, jitter \in Jitters :
                LET comfortable == [crowd_state EXCEPT
                                      !.zone_states[z].density = Density(0, 1)]
                    at_comfortable == zone_inflow(venue, comfortable, dt, rate, jitter, z)
                    at_dangerous == zone_inflow(venue, crowd_state, dt, rate, jitter, z)
                IN at_comfortable > 0 => at_dangerous < at_comfortable

\* C11 (scenario): on the hall of capacity 1000 and 250 m2 behind one gate of
\* 200 per minute, with at least 300 expected, one step of 60 s at 300
\* arrivals per minute admits exactly 200: occupancy 200, density 0.8, tier
\* moderate.
C11_Scenario ==
    (run.steps = 1 /\ run.dts = {60} /\ run.rates = {300}) =>
        /\ crowd_state.total_inside = 200
        /\ crowd_state.gate_states["gate"].queue_length = 100
        /\ crowd_state.gate_states["gate"].throughput_rate.num
              = 200 * crowd_state.gate_states["gate"].throughput_rate.den
        /\ crowd_state.zone_states["bowl"].current_occupancy = 200
        /\ 10 * crowd_state.zone_states["bowl"].density.num
              = 8 * crowd_state.zone_states["bowl"].density.den
        /\ crowd_state.zone_states["bowl"].risk_level = "moderate"

\* C11 witness: the step of the scenario was made, from 450 expected.
C11_Witness ==
    /\ run.steps = 1 /\ run.dts = {60} /\ run.rates = {300}
    /\ run.expected_attendance = 450
    /\ crowd_state.total_approaching = 150

\* C12, as claimed: two calls of simulate_timestep on one engine with the
\* same venue, state, dt and arrival_rate return equal states.  The two
\* calls take two successive draws of the engine's random generator.
C12_SameResult ==
    \A dt \in DtChoices, rate \in ArrivalRates, first_draw \in Jitters,
       second_draw \in Jitters :
        simulate_timestep(venue, crowd_state, dt, rate, first_draw)
            = simulate_timestep(venue, crowd_state, dt, rate, second_draw)

\* A transition is one call of simulate_timestep by the caller.
IsCall == run'.steps = run.steps + 1

mismatched_ids(v, st) ==
    \/ \E z \in ZoneIds(v) : z \notin DOMAIN st.zone_states
    \/ \E g \in GateIds(v) : g \notin DOMAIN st.gate_states
    \/ \E i \in 1..Len(v.gates) :
          \E j \in 1..Len(v.gates[i].connected_zones) :
              ~HasZone(v, v.gates[i].connected_zones[j])

\* C14, as claimed: a call of simulate_timestep with mismatched ids raises
\* an error and returns no state.
C14_FailFast ==
    (run.steps > 0 /\ mismatched_ids(venue, crowd_state)) =>
        (run.raised # "none" /\ run.returned = <<>>)

(***************************************************************************)
(* Statements about EvacuationSimulator                                    *)
(***************************************************************************)
\* A transition is a simulate_step on a started evacuation exactly when it
\* appends to the history.
IsStep == Len(history') > Len(history)

SumEvacuatedCounts ==
    SumSeq([i \in 1..Len(zones) |-> zones[i].evacuated_count])

\* C4 (evacuation monotonicity): a simulate_step on a started evacuation
\* never lowers total_evacuated and never raises a zone's occupancy.
C4_Monotone ==
    [][IsStep =>
          /\ state'[1].total_evacuated >= state[1].total_evacuated
          /\ \A i \in 1..Len(zones) :
                zones'[i].current_occupancy <= zones[i].current_occupancy]_vars

\* C4 witness: two steps have been made and the second evacuated people.
C4_Witness ==
    /\ Len(history) >= 2
    /\ state # <<>>
    /\ \E i \in 1..(Len(history) - 1) :
          /\ history[i].state.total_evacuated > 0
          /\ history[i + 1].state.total_evacuated > history[i].state.total_evacuated
          /\ \E z \in 1..Len(zones) :
                history[i + 1].zones[z].current_occupancy
                    < history[i].zones[z].current_occupancy

\* C5, as claimed: start_evacuation on a freshly constructed simulator
\* installs a state with phase = initial_phase, elapsed 0, nobody
\* evacuated, total_to_evacuate = the sum of the zone occupancies and the
\* estimate floor(total / exit capacity * 60 * f), f = 1.5 for ALERT and
\* 2.0 otherwise.
C5_StartInstalls ==
    (last_call # <<>> /\ last_call[1].op = "start_evacuation" /\ last_call[1].fresh) =>
        /\ last_call[1].raised = "none"
        /\ state # <<>>
        /\ state[1].phase = last_call[1].arg
        /\ state[1].elapsed_seconds = 0
        /\ state[1].total_evacuated = 0
        /\ state[1].total_to_evacuate = total_occupancy(zones)
        /\ LET capacity == SumSeq([i \in 1..Len(exits) |-> exits[i].max_flow_rate])
               twice_f == IF last_call[1].arg = "alert" THEN 3 ELSE 4
           IN capacity > 0 =>
                 state[1].estimated_complete_time
                     = (total_occupancy(zones) * 60 * twice_f) \div (2 * capacity)

\* C6 (step before start): simulate_step with no state raises ValueError
\* and leaves state, history, zones and exits as they were.
C6_RejectedUnchanged ==
    [][(state = <<>> /\ last_call' # <<>> /\ last_call'[1].op = "simulate_step") =>
          /\ last_call'[1].raised = "ValueError"
          /\ state' = <<>>
          /\ history = <<>> /\ history' = <<>>
          /\ zones' = zones
          /\ exits' = exits]_vars

\* C6 witness: a simulate_step was called on a simulator with no state.
C6_Witness ==
    /\ last_call # <<>>
    /\ last_call[1].op = "simulate_step"
    /\ last_call[1].fresh
    /\ state = <<>>

\* C7 (phase rule): after a step, with d the largest density among the
\* zones still occupied, the phase is CRITICAL if d >= 6; else PANIC if
\* d >= 4 or the phase was CRITICAL; else ALERT if the phase was PANIC and
\* d < 2; else unchanged.  CRITICAL never becomes ALERT in one step.
C7_PhaseRule ==
    [][IsStep =>
          LET occupied == {i \in 1..Len(zones') : zones'[i].current_occupancy > 0}
              reaches(t) == \E i \in occupied :
                                zones'[i].current_occupancy >= t * zones'[i].area_sqm
              before == state[1].phase
              after == state'[1].phase
          IN /\ after = IF reaches(6) THEN "critical"
                        ELSE IF reaches(4) \/ before = "critical" THEN "panic"
                        ELSE IF before = "panic" /\ ~reaches(2) THEN "alert"
                        ELSE before
             /\ before = "critical" => after # "alert"]_vars

\* C7 witness: one run went CRITICAL, then PANIC, then ALERT.
C7_Witness ==
    \E i, j, k \in 1..Len(history) :
        /\ i < j /\ j < k
        /\ history[i].state.phase = "critical"
        /\ history[j].state.phase = "panic"
        /\ history[k].state.phase = "alert"

steps_chained ==
    \A key \in DOMAIN simulations :
        /\ simulations[key].current_time_seconds = api_dt_seconds * run.executed[key]
        /\ simulations[key].crowd_state.simulation_time_seconds =
               simulations[key].current_time_seconds

\* The clock of every run stands where k x 10/60 stands: in the same minute.
clock_exact ==
    \A key \in DOMAIN simulations :
        current_minute(simulations[key].current_time_seconds) =
            (api_dt_seconds * run.executed[key]) \div 60

\* C15, as claimed: under any interleaving of HTTP steps, WebSocket steps
\* and WebSocket auto-steps on one key no step is lost, and after k
\* timesteps the run's clock is k x 10/60 and equals the crowd state's.
C15_Serialized == steps_chained /\ clock_exact

\* Two sockets and an HTTP client have stepped the same run, the sockets
\* still sending their updates.
C15_Interleaved ==
    /\ DOMAIN sockets = {"w1", "w2"}
    /\ \A c \in DOMAIN sockets :
          sockets[c].event_id = "hall" /\ sockets[c].at \in {"sending", "sleeping"}
    /\ sockets["w1"].at # sockets["w2"].at
    /\ last_call # <<>> /\ last_call[1].driver = "http" /\ last_call[1].key = "hall"
    /\ "hall" \in DOMAIN simulations
    /\ simulations["hall"].current_time_seconds >= 3 * api_dt_seconds

\* What is stored under one key: the run with its crowd state and clock, the
\* engine and the arrival curve.
bundle(sims, engs, curves, key) ==
    [simulation |-> IF key \in DOMAIN sims THEN << sims[key] >> ELSE <<>>,
     engine |-> IF key \in DOMAIN engs THEN << engs[key] >> ELSE <<>>,
     arrival_curve |-> IF key \in DOMAIN curves THEN << curves[key] >> ELSE <<>>]

\* Every key a client can name
Keys == DOMAIN SCENARIOS \cup {"fair"}

\* C16: an operation on the run under one key (start, step, pause, resume,
\* set_speed, stop, reset, from HTTP or a WebSocket) leaves what is stored
\* under every other key as it was.
C16_Isolated ==
    [][\A other \in Keys :
          other # last_call'[1].key =>
              bundle(simulations', engines', arrival_curves', other) =
                  bundle(simulations, engines, arrival_curves, other)]_vars

\* Two runs are live and both stepped, one of them paused over a
\* WebSocket, and the last operation stepped the other.
C16_Witness ==
    /\ {"hall", "arena"} \subseteq DOMAIN simulations
    /\ simulations["arena"].current_time_seconds > 0
    /\ simulations["arena"].is_paused
    /\ simulations["hall"].current_time_seconds > 0
    /\ last_call # <<>> /\ last_call[1].key = "hall" /\ last_call[1].driver # "none"

(***************************************************************************)
(* Statements about exits without capacity                                 *)
(***************************************************************************)
\* sum of max_flow_rate over all exits (line 113)
total_exit_capacity(ex) == SumSeq([i \in 1..Len(ex) |-> ex[i].max_flow_rate])

\* The occupied zones that no accessible exit with capacity serves
stuck_zones(ex, zs) ==
    {i \in 1..Len(zs) :
        /\ zs[i].current_occupancy > 0
        /\ remaining_exits_capacity(ex, zs[i].nearest_exits) = 0}

unstaffed == {i \in 1..Len(facilities) :
                 facilities[i].is_operational /\ facilities[i].capacity = 0}

\* C18, as claimed: simulate_step over an operational facility of capacity
\* 0 raises no division fault, returns a FacilityState for that facility,
\* and serves nobody from its queue.
C18_ZeroCapacity ==
    (last_call # <<>> /\ unstaffed # {}) =>
        /\ last_call[1].raised # "ZeroDivisionError"
        /\ \A i \in unstaffed :
              /\ \E j \in 1..Len(last_call[1].returned) :
                    last_call[1].returned[j].facility_id = facilities[i].facility_id
              /\ facilities[i].total_served = 0

\* simulate_step has run twice over a concourse with an unstaffed stand
\* whose queue has grown meanwhile.
C18_Witness ==
    /\ run.steps = 2 /\ last_call # <<>>
    /\ \E i \in unstaffed : facilities[i].current_queue > ConcourseSouth[i].current_queue

\* The arrivals that the last simulate_step drew for facility i (none for a
\* facility the loop did not come to)
arrivals_drawn(call, i) == IF i <= Len(call.arrivals) THEN call.arrivals[i] ELSE 0

\* C20: in every simulate_step and for every operational facility with
\* capacity > 0, the completions (the growth of total_served) are at most
\* queue + arrivals and at most capacity x 60 / service_time x dt_minutes,
\* the new queue is queue + arrivals - completions and not negative, and
\* total_served does not decrease.
C20_QueueStep ==
    [][\A i \in 1..Len(facilities) :
          (facilities[i].is_operational /\ facilities[i].capacity > 0) =>
              LET f == facilities[i]
                  arrivals == arrivals_drawn(last_call'[1], i)
                  served == facilities'[i].total_served - f.total_served
              IN /\ served >= 0
                 /\ served <= f.current_queue + arrivals
                 /\ served * f.service_time_avg <= f.capacity * last_call'[1].dt_seconds
                 /\ facilities'[i].current_queue = f.current_queue + arrivals - served
                 /\ facilities'[i].current_queue >= 0]_vars

\* Two steps have returned; one facility served people in both while its
\* queue outgrew the service ceiling.
C20_Witness ==
    /\ Len(history) = 2
    /\ \E i \in 1..Len(facilities) :
          /\ facilities[i].capacity > 0 /\ facilities[i].is_operational
          /\ facilities[i].total_served >= 2
          /\ facilities[i].current_queue > 0
          /\ history[1][i].current_queue > 0

(***************************************************************************)
(* Statements about TransportSimulator                                     *)
(***************************************************************************)
\* The last call was predict_exit_surge for nobody, with an LRT departure
\* in its exit window.
nobody_leaving ==
    /\ last_call # <<>>
    /\ last_call[1].op = "predict_exit_surge"
    /\ last_call[1].total_attendees = 0
    /\ post_event_services(schedule.services, last_call[1].event_end_time,
                           last_call[1].exit_duration_minutes) # <<>>

\* C19, as claimed: predict_exit_surge with total_attendees = 0 and at least
\* one LRT departure in the post-event window raises no division fault and
\* returns a list of recommendations.
C19_ZeroAttendance ==
    nobody_leaving =>
        (last_call[1].raised = "none" /\ last_call[1].returned # <<>>)

\* Such a call was made after one for a crowd, on the schedule with three
\* trains.
C19_Witness ==
    /\ nobody_leaving
    /\ run.calls = 2
    /\ Len(schedule.services) > 1

\* C21, as claimed: with the zone population, dt and jitter the same, the
\* arrivals a halftime step adds to the restroom's queue are exactly 5 times
\* those an entry step adds.
C21_Halftime ==
    last_call # <<>> => last_call[1].halftime[1] = 5 * last_call[1].entry[1]

\* A halftime step in which people arrived.
C21_Witness ==
    last_call # <<>> /\ last_call[1].halftime[1] > 0 /\ last_call[1].entry[1] > 0

\* The passengers of every scheduled service that reaches the venue in
\* [current_time, current_time + window_minutes]
passengers_due(services, current_time, window_minutes) ==
    SumSeq([k \in 1..Len(services) |->
              LET at == services[k].scheduled_time + services[k].walking_time_to_venue
              IN IF current_time <= at /\ at <= current_time + window_minutes
                 THEN services[k].expected_passengers ELSE 0])

IsWave(call) == call # <<>> /\ call[1].op = "calculate_arrival_wave"

\* C22: calculate_arrival_wave reports as total_arrivals the passengers of
\* exactly the services whose scheduled_time + walking_time_to_venue lies in
\* the window, both ends included; the sums by transport type add up to
\* it; and the schedule is as before.
C22_ArrivalWave ==
    [][IsWave(last_call') =>
          LET call == last_call'[1]
              by == call.returned.arrivals_by_transport
          IN /\ call.returned.total_arrivals =
                    passengers_due(schedule.services, call.current_time,
                                   call.window_minutes)
             /\ by["lrt"] + by["bus"] + by["private"] + by["taxi"] + by["walking"] =
                    call.returned.total_arrivals
             /\ schedule' = schedule]_vars

\* A wave of trains and a bus, one train reaching the venue at the very
\* end of the window.
C22_Witness ==
    /\ IsWave(last_call)
    /\ last_call[1].returned.arrivals_by_transport["lrt"] > 0
    /\ last_call[1].returned.arrivals_by_transport["bus"] > 0
    /\ \E k \in 1..Len(schedule.services) :
          schedule.services[k].scheduled_time + schedule.services[k].walking_time_to_venue
              = last_call[1].current_time + last_call[1].window_minutes

\* C23, as claimed: peak_arrival_time is the instant of the window at which
\* the most passengers arrive, the services arriving at the same instant
\* added up, and it is absent only when no service arrives in the window.
C23_Peak ==
    IsWave(last_call) =>
        LET call == last_call[1]
            hits == arriving(schedule.services, call.current_time, call.window_minutes)
            entries == [k \in 1..Len(hits) |->
                          [time |-> hits[k].scheduled_time + hits[k].walking_time_to_venue,
                           passengers |-> hits[k].expected_passengers]]
            at(t) == SumSeq([k \in 1..Len(entries) |->
                               IF entries[k].time = t THEN entries[k].passengers ELSE 0])
        IN IF hits = <<>> THEN call.returned.peak_arrival_time = <<>>
           ELSE /\ call.returned.peak_arrival_time # <<>>
                /\ at(call.returned.peak_arrival_time[1]) = at(peak_of_instants(entries))

\* A wave in which two services reach the venue at the same instant.
C23_Witness ==
    /\ IsWave(last_call)
    /\ last_call[1].returned.peak_arrival_time # <<>>
    /\ \E i, j \in 1..Len(schedule.services) :
          /\ i < j
          /\ schedule.services[i].scheduled_time + schedule.services[i].walking_time_to_venue
                = schedule.services[j].scheduled_time
                    + schedule.services[j].walking_time_to_venue
          /\ schedule.services[i].scheduled_time + schedule.services[i].walking_time_to_venue
                >= last_call[1].current_time
          /\ schedule.services[i].scheduled_time + schedule.services[i].walking_time_to_venue
                <= last_call[1].current_time + last_call[1].window_minutes
          /\ schedule.services[i].expected_passengers > 0
          /\ schedule.services[j].expected_passengers > 0

\* The capacity of the LRT departures inside the exit window of the last
\* predict_exit_surge call.
window_lrt_capacity ==
    LET post == post_event_services(schedule.services, last_call[1].event_end_time,
                                    last_call[1].exit_duration_minutes)
    IN SumSeq([i \in 1..Len(post) |-> post[i].capacity])

\* The result of the last call starts with the request for additional LRT
\* services, critical and timed at the end of the event.
additional_service_first ==
    /\ last_call[1].returned # <<>>
    /\ last_call[1].returned[1] =
           [time |-> last_call[1].event_end_time, priority |-> "critical",
            action |-> "request_additional_lrt"]

\* C24: predict_exit_surge puts the critical request for additional service
\* first in its result exactly when the LRT capacity departing in
\* [event_end, event_end + exit_duration] is below 80% of 60% of
\* total_attendees, and answers with a single critical recommendation when
\* no LRT departs in that window.
C24_CriticalFirst ==
    (last_call # <<>> /\ last_call[1].op = "predict_exit_surge") =>
        LET post == post_event_services(schedule.services,
                        last_call[1].event_end_time,
                        last_call[1].exit_duration_minutes)
        IN IF post = <<>>
           THEN /\ Len(last_call[1].returned) = 1
                /\ last_call[1].returned[1].priority = "critical"
           ELSE /\ additional_service_first
                    <=> (100 * window_lrt_capacity < 48 * last_call[1].total_attendees)
                /\ \A i \in 2..Len(last_call[1].returned) :
                       last_call[1].returned[i].action # "request_additional_lrt"

\* A call whose window holds departures too small for the crowd, answered
\* with the request first and the staggered releases after it.
C24_Witness ==
    /\ last_call # <<>>
    /\ last_call[1].op = "predict_exit_surge"
    /\ window_lrt_capacity > 0
    /\ 100 * window_lrt_capacity < 48 * last_call[1].total_attendees
    /\ additional_service_first
    /\ Len(last_call[1].returned) > 2

\* The arrivals of a curve entry are a whole number of people.
whole_rate(rate) == rate.num % rate.den = 0

\* The arrivals of all entries of a curve add up to total: the numerators
\* over the one common denominator.
rates_sum_to(curve, total) ==
    \A i \in 1..Len(curve) :
        SumSeq([j \in 1..Len(curve) |-> curve[j].rate.num]) = total * curve[i].rate.den

\* C25: generate_arrival_curve returns one (minute, arrivals) pair for every
\* whole minute from 0 to the window length in ascending order, every
\* arrivals value a whole number, and the values add up to total_attendees,
\* for every pattern.  (A value within 1 of its share is implied for the
\* values returned, which are the shares themselves.)
C25_Normalized ==
    (last_call # <<>> /\ last_call[1].op = "generate_arrival_curve") =>
        /\ last_call[1].raised = "none"
        /\ Len(last_call[1].returned) = last_call[1].duration_minutes + 1
        /\ \A i \in 1..Len(last_call[1].returned) :
              /\ last_call[1].returned[i].minute = i - 1
              /\ whole_rate(last_call[1].returned[i].rate)
        /\ rates_sum_to(last_call[1].returned, last_call[1].total_attendees)

\* Five attendees over a one-minute window of the normal pattern: two entries
\* of two and a half people each.
C25_Witness ==
    /\ last_call # <<>>
    /\ last_call[1].op = "generate_arrival_curve"
    /\ last_call[1].total_attendees = 5
    /\ last_call[1].duration_minutes = 1
    /\ last_call[1].pattern = "normal"
    /\ Len(last_call[1].returned) = 2
    /\ \A i \in 1..2 : 2 * last_call[1].returned[i].rate.num
                           = 5 * last_call[1].returned[i].rate.den

(***************************************************************************)
(* Statements about the flow through the exits in one simulate_step        *)
(***************************************************************************)
\* The people of one zone that leave by exit_id in a step of dt_seconds:
\* the amounts evacuated_via_exit of the loop over its nearest_exits.
RECURSIVE via_exit(_, _, _, _, _, _)
via_exit(ex, zone, exit_ids, dt_seconds, zone_evacuated, exit_id) ==
    IF exit_ids = <<>> THEN 0
    ELSE LET r == through_exits(ex, zone, << Head(exit_ids) >>, dt_seconds,
                                zone_evacuated)
         IN (IF Head(exit_ids) = exit_id
             THEN r.zone_evacuated - zone_evacuated ELSE 0)
            + via_exit(ex, zone, Tail(exit_ids), dt_seconds, r.zone_evacuated,
                       exit_id)

\* The people of all occupied zones that leave by exit_id in the step.
carried(ex, zs, dt_seconds, exit_id) ==
    SumSeq([i \in 1..Len(zs) |->
               IF zs[i].current_occupancy <= 0 THEN 0
               ELSE via_exit(ex, zs[i], zs[i].nearest_exits, dt_seconds, 0,
                             exit_id)])

\* The people carried by the exits are the people the step evacuated.
CarriedIsEvacuated ==
    [][IsStep =>
          SumSeq([i \in 1..Len(exits) |->
                     carried(exits, zones, last_call'[1].arg, exits[i].exit_id)])
              = state'[1].total_evacuated - state[1].total_evacuated]_vars

queue_growth(before, after, gate_id) ==
    after.gate_states[gate_id].queue_length - before.gate_states[gate_id].queue_length

\* C27: in the arrival phase of a step with at least one open non-emergency
\* gate, the people added to the gate queues, and taken from
\* total_approaching, are the arrivals drawn,
\* min(int(arrival_rate x dt / 60 + jitter), total_approaching); each such
\* gate receives its capacity share of them, to the whole person, and
\* closed gates and emergency exits receive nobody.
C27_ArrivalDistribution ==
    \A dt \in DtChoices, rate \in ArrivalRates, jitter \in Jitters :
        LET drawn == arrivals_this_step(crowd_state, rate, dt, jitter)
            after == process_arrivals(venue, crowd_state, rate, dt, jitter)
            open == open_gates(venue)
            total == total_capacity(open)
        IN (open # <<>> /\ drawn > 0) =>
              /\ SumSeq([i \in 1..Len(venue.gates) |->
                     queue_growth(crowd_state, after, venue.gates[i].gate_id)]) = drawn
              /\ crowd_state.total_approaching - after.total_approaching = drawn
              /\ after.total_queuing - crowd_state.total_queuing = drawn
              /\ \A i \in 1..Len(venue.gates) :
                    LET g == venue.gates[i]
                        n == queue_growth(crowd_state, after, g.gate_id)
                    IN IF g.is_open /\ ~g.is_emergency_exit
                       THEN /\ n * total <= drawn * g.capacity_per_minute + total
                            /\ n * total >= drawn * g.capacity_per_minute - total
                       ELSE n = 0

\* One step has been made on the arena, whose three open gates share the
\* arrivals 6 : 12 : 12, and seven people have left the approach: no draw
\* of rate, dt and jitter is seven.
C27_Witness ==
    /\ venue = VenueArena
    /\ run.steps = 1
    /\ run.expected_attendance - crowd_state.total_approaching = 7
    /\ \A dt \in DtChoices, rate \in ArrivalRates, jitter \in Jitters :
          (rate * dt + jitter) \div 60 # 7

\* People moved out of zone_id towards the targets by _process_zone_flow
\* (lines 223-240): the flows of the loop over the connected zones.
RECURSIVE target_outflow(_, _, _, _, _, _)
target_outflow(st, zone_id, targets, n_connected, reduction_x10, dt_seconds) ==
    IF targets = <<>> THEN 0
    ELSE LET target == Head(targets)
             available_capacity ==
                 target.capacity - st.zone_states[target.zone_id].current_occupancy
             flow == diffusion_flow(reduction_x10, dt_seconds, n_connected,
                                    st.zone_states[zone_id].current_occupancy,
                                    available_capacity)
             st1 == flow_to_targets(st, zone_id, <<target>>, n_connected,
                                    reduction_x10, dt_seconds)
         IN (IF available_capacity <= 0 \/ flow <= 0 THEN 0 ELSE flow)
            + target_outflow(st1, zone_id, Tail(targets), n_connected,
                             reduction_x10, dt_seconds)

\* People who leave zone `from` in the diffusion phase that starts in st:
\* the zones are processed in venue order, each on the state the earlier
\* ones left.
RECURSIVE diffusion_outflow(_, _, _, _, _)
diffusion_outflow(v, st, zs, dt_seconds, from) ==
    IF zs = <<>> THEN 0
    ELSE LET zone == Head(zs)
             connected == connected_targets(v, zone)
         IN IF zone.zone_id = from
            THEN IF st.zone_states[from].current_occupancy <= 0 \/ connected = <<>>
                 THEN 0
                 ELSE target_outflow(st, from, connected, Len(connected),
                          get_density_reduction(st.zone_states[from].density),
                          dt_seconds)
            ELSE diffusion_outflow(v, zone_flow_step(v, st, zone, dt_seconds),
                                   Tail(zs), dt_seconds, from)

\* The state on which the diffusion phase of a step starts.
before_diffusion(v, st, dt_seconds, arrival_rate, jitter) ==
    process_gates(v, process_arrivals(v, st, arrival_rate, dt_seconds, jitter),
                  dt_seconds)

\* C28: in one simulate_timestep the people who leave a zone by diffusion
\* are at most 10% of the zone's occupancy at the start of the diffusion
\* phase, however many connected zones it has.
C28_DrainCap ==
    \A dt \in DtChoices, rate \in ArrivalRates, jitter \in Jitters :
        LET st == before_diffusion(venue, crowd_state, dt, rate, jitter)
        IN \A i \in 1..Len(venue.zones) :
              10 * diffusion_outflow(venue, st, venue.zones, dt,
                                     venue.zones[i].zone_id)
                  <= st.zone_states[venue.zones[i].zone_id].current_occupancy

\* A step has moved people from the concourse into both wings: the wings
\* hold more than a tenth of all who have entered.
C28_Witness ==
    /\ venue = VenueConcourse
    /\ run.steps = 1
    /\ crowd_state.zone_states["east"].current_occupancy > 0
    /\ crowd_state.zone_states["west"].current_occupancy > 0
    /\ 10 * (crowd_state.zone_states["east"].current_occupancy
             + crowd_state.zone_states["west"].current_occupancy)
          > crowd_state.total_inside

\* The bottlenecks of a step of dt_seconds from the zones zs_before to the
\* zones zs_after: occupied zones by their density after the step, and the
\* exits by the people they carried in the step.
bottlenecks_of_step(ex, zs_before, zs_after, dt_seconds) ==
    {[target |-> zs_after[i].zone_id, severity |-> "critical"] :
        i \in {j \in 1..Len(zs_after) :
                 /\ zs_after[j].current_occupancy > 0
                 /\ zs_after[j].current_occupancy
                       >= CRUSHING_DENSITY * zs_after[j].area_sqm}}
    \cup
    {[target |-> zs_after[i].zone_id, severity |-> "high"] :
        i \in {j \in 1..Len(zs_after) :
                 /\ zs_after[j].current_occupancy > 0
                 /\ zs_after[j].current_occupancy
                       >= BOTTLENECK_DENSITY * zs_after[j].area_sqm
                 /\ zs_after[j].current_occupancy
                       < CRUSHING_DENSITY * zs_after[j].area_sqm}}
    \cup
    {[target |-> ex[i].exit_id, severity |-> "medium"] :
        i \in {j \in 1..Len(ex) :
                 LET n == carried(ex, zs_before, dt_seconds, ex[j].exit_id)
                 IN /\ n > 0
                    /\ 10 * 60 * n >= 9 * ex[j].max_flow_rate * dt_seconds}}

risk_tier(occupancy, area_sqm) ==
    IF 2 * occupancy < area_sqm THEN "safe"
    ELSE IF occupancy < 2 * area_sqm THEN "moderate"
    ELSE IF occupancy < 4 * area_sqm THEN "high"
    ELSE "critical"

\* Density and risk of every venue zone agree with its occupancy in st.
densities_consistent(v, st) ==
    \A i \in 1..Len(v.zones) :
        LET zone_state == st.zone_states[v.zones[i].zone_id]
        IN /\ zone_state.density.num * v.zones[i].area_sqm
                 = zone_state.current_occupancy * zone_state.density.den
           /\ zone_state.risk_level
                 = risk_tier(zone_state.current_occupancy, v.zones[i].area_sqm)

\* C30: in every CrowdState of a run, the one installed by start_simulation
\* (scenarios with initial zone occupancy included) and the one after every
\* step, each venue zone's density is current_occupancy / area_sqm and its
\* risk tier is safe, moderate, high or critical for density < 0.5, < 2.0,
\* < 4.0 or above.
C30_DensityRisk ==
    \A key \in DOMAIN simulations :
        densities_consistent(SCENARIOS[simulations[key].scenario].venue,
                             simulations[key].crowd_state)

\* The arena run has been started and not stepped: its stand holds the five
\* people of the scenario's initial occupancy.
C30_Witness ==
    /\ "arena" \in DOMAIN simulations
    /\ simulations["arena"].current_time_seconds = 0
    /\ simulations["arena"].crowd_state.simulation_time_seconds = 0
    /\ simulations["arena"].crowd_state.zone_states["stand"].current_occupancy = 5
    /\ simulations["arena"].crowd_state.total_inside = 5

\* The occupancies of all zones of the venue, added up.
sum_of_occupancies(v, st) ==
    SumSeq([i \in 1..Len(v.zones) |->
               st.zone_states[v.zones[i].zone_id].current_occupancy])

\* Every transfer of the loop over the targets of one zone leaves a target
\* that was within its capacity within it, and a full target as it was.
RECURSIVE targets_within_capacity(_, _, _, _, _, _)
targets_within_capacity(st, zone_id, targets, n_connected, reduction_x10, dt_seconds) ==
    \/ targets = <<>>
    \/ LET target == Head(targets)
           before == st.zone_states[target.zone_id].current_occupancy
           st1 == flow_to_targets(st, zone_id, <<target>>, n_connected,
                                  reduction_x10, dt_seconds)
           after == st1.zone_states[target.zone_id].current_occupancy
       IN /\ target.zone_id # zone_id =>
                /\ before <= target.capacity => after <= target.capacity
                /\ before >= target.capacity => after = before
          /\ targets_within_capacity(st1, zone_id, Tail(targets), n_connected,
                                     reduction_x10, dt_seconds)

\* The same for the loop over the zones, each on the state the earlier ones
\* left.
RECURSIVE transfers_within_capacity(_, _, _, _)
transfers_within_capacity(v, st, zs, dt_seconds) ==
    \/ zs = <<>>
    \/ LET zone == Head(zs)
           connected == connected_targets(v, zone)
       IN /\ (st.zone_states[zone.zone_id].current_occupancy > 0 /\ connected # <<>>) =>
                targets_within_capacity(st, zone.zone_id, connected, Len(connected),
                    get_density_reduction(st.zone_states[zone.zone_id].density),
                    dt_seconds)
          /\ transfers_within_capacity(v, zone_flow_step(v, st, zone, dt_seconds),
                                       Tail(zs), dt_seconds)

\* C31: diffusion never raises a receiving zone above its capacity: a zone
\* within its capacity before the diffusion phase is within it afterwards,
\* a zone at or over capacity when a transfer is due receives nothing, and
\* the phase leaves the sum of the zone occupancies unchanged.
C31_ReceivingCapacity ==
    \A dt \in DtChoices, rate \in ArrivalRates, jitter \in Jitters :
        LET st == before_diffusion(venue, crowd_state, dt, rate, jitter)
            after == process_zone_flow(venue, st, dt)
        IN /\ \A i \in 1..Len(venue.zones) :
                 LET z == venue.zones[i]
                 IN /\ st.zone_states[z.zone_id].current_occupancy <= z.capacity
                        => after.zone_states[z.zone_id].current_occupancy <= z.capacity
                    /\ st.zone_states[z.zone_id].current_occupancy >= z.capacity
                        => after.zone_states[z.zone_id].current_occupancy
                              <= st.zone_states[z.zone_id].current_occupancy
           /\ transfers_within_capacity(venue, st, venue.zones, dt)
           /\ sum_of_occupancies(venue, after) = sum_of_occupancies(venue, st)

\* A step from here starts its diffusion with a zone that has twenty
\* people or more to spread and a connected zone that is full.
C31_Witness ==
    \E dt \in DtChoices, rate \in ArrivalRates, jitter \in Jitters :
        LET st == before_diffusion(venue, crowd_state, dt, rate, jitter)
        IN \E i \in 1..Len(venue.zones) :
              LET zone == venue.zones[i]
                  connected == connected_targets(venue, zone)
              IN /\ st.zone_states[zone.zone_id].current_occupancy >= 20
                 /\ get_density_reduction(st.zone_states[zone.zone_id].density) > 0
                 /\ \E j \in 1..Len(connected) :
                       /\ connected[j].zone_id # zone.zone_id
                       /\ st.zone_states[connected[j].zone_id].current_occupancy
                             = connected[j].capacity

\* What a gate admits in the gate phase that turns before into after.
admitted(before, after, gate_id) ==
    before.gate_states[gate_id].queue_length - after.gate_states[gate_id].queue_length

\* C32: in one simulate_timestep each open gate admits at most its queue
\* after the arrivals and at most capacity_per_minute x dt / 60; what it
\* admits leaves its queue and the admissions of all gates are what is added
\* to total_inside; a closed gate admits nobody and keeps its queue.
C32_GateThroughput ==
    \A dt \in DtChoices, rate \in ArrivalRates, jitter \in Jitters :
        LET st == process_arrivals(venue, crowd_state, rate, dt, jitter)
            after == process_gates(venue, st, dt)
        IN /\ \A i \in 1..Len(venue.gates) :
                 LET gate == venue.gates[i]
                     n == admitted(st, after, gate.gate_id)
                 IN IF gate.is_open
                    THEN /\ n >= 0
                         /\ n <= st.gate_states[gate.gate_id].queue_length
                         /\ 60 * n <= gate.capacity_per_minute * dt
                         /\ n = gate_admits(venue,
                                    process_gates_from(venue, st,
                                        SubSeq(venue.gates, 1, i - 1), dt, 0),
                                    gate, dt)
                    ELSE n = 0
           /\ after.total_inside - st.total_inside
                 = SumSeq([i \in 1..Len(venue.gates) |->
                              admitted(st, after, venue.gates[i].gate_id)])

\* A step from here leaves a gate of the arena, which also has a closed
\* gate, with more people queued than it can admit in the step, and it
\* admits some of them.
C32_Witness ==
    /\ venue = VenueArena
    /\ \E dt \in DtChoices, rate \in ArrivalRates, jitter \in Jitters :
          LET st == process_arrivals(venue, crowd_state, rate, dt, jitter)
              after == process_gates(venue, st, dt)
          IN \E i \in 1..Len(venue.gates) :
                LET gate == venue.gates[i]
                IN /\ gate.is_open
                   /\ 60 * st.gate_states[gate.gate_id].queue_length
                         > gate.capacity_per_minute * dt
                   /\ admitted(st, after, gate.gate_id) > 0

\* The gate releases among the recommendations of the last call, in order.
releases ==
    SelectSeq(last_call[1].returned,
              LAMBDA r : r.action \in {"open_south_exits", "release_next_section"})

\* The place of a priority in the order critical, high, medium.
priority_rank(priority) ==
    CASE priority = "critical" -> 1 [] priority = "high" -> 2 [] OTHER -> 3

\* C33: a predict_exit_surge that returns gives one gate release for every
\* LRT departure in [event_end, event_end + exit_duration], each timed
\* lrt_walking_time + 3 minutes before the departure it serves, in the order
\* critical entry, high release for the first departure, medium releases.
C33_ReleasePerDeparture ==
    (/\ last_call # <<>>
     /\ last_call[1].op = "predict_exit_surge"
     /\ last_call[1].raised = "none") =>
        LET post == post_event_services(schedule.services,
                        last_call[1].event_end_time,
                        last_call[1].exit_duration_minutes)
            returned == last_call[1].returned
        IN /\ Len(releases) = Len(post)
           /\ \A i \in 1..Len(releases) :
                 /\ i <= Len(post)
                 /\ releases[i].time
                       = post[i].scheduled_time - (schedule.lrt_walking_time + 3)
                 /\ releases[i].priority = IF i = 1 THEN "high" ELSE "medium"
           /\ \A i \in 1..(Len(returned) - 1) :
                 priority_rank(returned[i].priority)
                    <= priority_rank(returned[i + 1].priority)

\* A call has returned whose window holds more than five LRT departures.
C33_Witness ==
    /\ last_call # <<>>
    /\ last_call[1].op = "predict_exit_surge"
    /\ last_call[1].raised = "none"
    /\ Len(post_event_services(schedule.services, last_call[1].event_end_time,
                               last_call[1].exit_duration_minutes)) > 5
    /\ Len(releases) = 5

(***************************************************************************)
(* Statements about runs that go on                                        *)
(***************************************************************************)
\* Everybody expected is inside: nobody approaches and no gate has a queue.
everyone_inside ==
    /\ crowd_state.total_approaching = 0
    /\ \A g \in GateIds(venue) : crowd_state.gate_states[g].queue_length = 0
    /\ crowd_state.total_inside = run.expected_attendance

\* No draw of the generator makes a further call of the run move anybody:
\* the state returned differs from this one by its clock alone.
at_standstill ==
    \A jitter \in Jitters :
        [simulate_timestep(venue, crowd_state, run.dt_seconds,
                           run.arrival_rate, jitter)
            EXCEPT !.simulation_time_seconds = crowd_state.simulation_time_seconds]
          = crowd_state

\* C34: with a non-emergency gate into a zone open, a positive arrival rate
\* and a fixed dt, repeated simulate_timestep calls eventually take
\* everybody out of total_approaching and drain every queue, so that
\* total_inside is the expected attendance: no state of the run in which
\* somebody still approaches or queues is one that further calls cannot
\* leave.
C34_EntryLiveness == at_standstill => everyone_inside

\* Several calls have been made, people are still approaching, and no
\* further call moves anybody.
C34_Witness ==
    /\ run.steps >= 2
    /\ crowd_state.total_approaching > 0
    /\ at_standstill

\* get_evacuation_summary: the "status" entry of the summary
summary_status(s) ==
    IF s.total_evacuated >= s.total_to_evacuate THEN "complete" ELSE "in_progress"

\* Every zone with occupants lists an exit the simulator knows, that is
\* accessible and lets somebody through per minute.
every_occupied_zone_has_exit ==
    \A i \in 1..Len(zones) :
        zones[i].current_occupancy > 0 =>
            \E k \in 1..Len(zones[i].nearest_exits) :
                LET exit_id == zones[i].nearest_exits[k]
                IN /\ exit_id \in ExitIds(exits)
                   /\ exits[ExitIndex(exits, exit_id)].is_accessible
                   /\ exits[ExitIndex(exits, exit_id)].max_flow_rate > 0

\* The evacuation is over: no zone has occupants, everybody counted at the
\* start is counted as evacuated and the summary says so.
evacuation_complete ==
    /\ \A i \in 1..Len(zones) : zones[i].current_occupancy = 0
    /\ state[1].total_evacuated = state[1].total_to_evacuate
    /\ summary_status(state[1]) = "complete"

\* simulate_step(dt_seconds) takes nobody out of any zone.  The number that
\* leaves a zone depends on the zone's occupancy and area and on its exits'
\* max_flow_rate and is_accessible alone, all of which such a step leaves as
\* they are: every later step with the same dt takes nobody out either.
evacuation_stalled(dt_seconds) ==
    LET r == simulate_step(exits, zones, state[1], dt_seconds)
    IN /\ \A i \in 1..Len(zones) :
             r.zones[i].current_occupancy = zones[i].current_occupancy
       /\ r.state.total_evacuated = state[1].total_evacuated

evacuation_conserved(zs, s) ==
    /\ s.total_evacuated + total_occupancy(zs) = s.total_to_evacuate
    /\ \A i \in 1..Len(zs) : zs[i].current_occupancy >= 0

\* C36: in every state of a started evacuation total_evacuated plus the sum
\* of the zone occupancies is total_to_evacuate and every occupancy is
\* >= 0, and a step evacuates from a zone no more people than it held when
\* the step began.
C36_EvacuationConservation ==
    [][state' # <<>> =>
          /\ evacuation_conserved(zones', state'[1])
          /\ IsStep =>
                \A i \in 1..Len(zones) :
                    /\ zones'[i].evacuated_count - zones[i].evacuated_count
                          <= zones[i].current_occupancy
                    /\ zones'[i].evacuated_count - zones[i].evacuated_count
                          = zones[i].current_occupancy - zones'[i].current_occupancy
      ]_vars

\* The step just made took the last people out of one zone, through exits
\* that could have carried more, while another zone still holds people.
C36_Witness ==
    /\ state # <<>>
    /\ Len(history) >= 2
    /\ last_call[1].op = "simulate_step"
    /\ state[1].total_evacuated > 0
    /\ total_occupancy(zones) > 0
    /\ \E i \in 1..Len(zones) :
          LET before == history[Len(history) - 1].zones[i]
          IN /\ before.current_occupancy > 0
             /\ zones[i].current_occupancy = 0
             /\ through_exits(exits, before, before.nearest_exits,
                              last_call[1].arg, 0).zone_evacuated
                   = before.current_occupancy
             /\ SumSeq([k \in 1..Len(before.nearest_exits) |->
                          IF before.nearest_exits[k] \in ExitIds(exits)
                             /\ exits[ExitIndex(exits, before.nearest_exits[k])].is_accessible
                          THEN effective_rate(
                                   exits[ExitIndex(exits, before.nearest_exits[k])].max_flow_rate,
                                   before.current_occupancy, before.area_sqm,
                                   last_call[1].arg)
                          ELSE 0])
                   > before.current_occupancy

(***************************************************************************)
(* Statements about the counters of a crowd state                          *)
(***************************************************************************)
\* Every gate that can admit lists one zone, and the venue knows it.
one_known_zone_per_gate(v) ==
    \A i \in 1..Len(v.gates) :
        v.gates[i].is_open =>
            /\ Len(v.gates[i].connected_zones) = 1
            /\ HasZone(v, v.gates[i].connected_zones[1])

\* C37: in every state of a run the zone occupancies add up to at most
\* total_inside, and to exactly total_inside when every admitting gate is
\* connected to exactly one zone, known to the venue.
C37_OccupancyWithinAdmitted ==
    /\ sum_of_occupancies(venue, crowd_state) <= crowd_state.total_inside
    /\ one_known_zone_per_gate(venue) =>
          sum_of_occupancies(venue, crowd_state) = crowd_state.total_inside

\* Steps have admitted people through gates of one known zone each, and a
\* queue is still waiting.
C37_Witness ==
    /\ run.steps >= 2
    /\ one_known_zone_per_gate(venue)
    /\ crowd_state.total_inside > 0
    /\ crowd_state.total_queuing > 0
    /\ sum_of_occupancies(venue, crowd_state) = crowd_state.total_inside

\* A gate feeding two zones has admitted an odd number: one person is
\* inside and in no zone.
some_admitted_in_no_zone ==
    /\ ~one_known_zone_per_gate(venue)
    /\ sum_of_occupancies(venue, crowd_state) < crowd_state.total_inside

\* The queues of all gates of the venue, added up.
sum_of_queues(v, st) ==
    SumSeq([i \in 1..Len(v.gates) |-> st.gate_states[v.gates[i].gate_id].queue_length])

\* C38: in every state of a run total_queuing is the sum of queue_length
\* over all gates.
C38_QueueTotal ==
    crowd_state.total_queuing = sum_of_queues(venue, crowd_state)

\* Arrivals have joined queues that were not empty and gates have admitted
\* people: two gates hold queues of different lengths.
C38_Witness ==
    /\ run.steps >= 3
    /\ crowd_state.total_inside > 0
    /\ crowd_state.total_approaching > 0
    /\ \E g, h \in GateIds(venue) :
          /\ crowd_state.gate_states[g].queue_length > 0
          /\ crowd_state.gate_states[h].queue_length
                > crowd_state.gate_states[g].queue_length

(***************************************************************************)
(* Statements about the phase of an evacuation                             *)
(***************************************************************************)
\* The moves a step may make once a step has computed the phase: none, or
\* one level down.
phase_move_allowed(before, after) ==
    \/ after = before
    \/ before = "critical" /\ after = "panic"
    \/ before = "panic" /\ after = "alert"

\* The call before this one was a simulate_step that went through: the
\* phase of the state is the one that step computed.
phase_computed_by_step ==
    /\ last_call # <<>>
    /\ last_call[1].op = "simulate_step"
    /\ last_call[1].raised = "none"

\* C39: once a step of a started evacuation has computed the phase, a later
\* step leaves it as it is or moves it one level down (CRITICAL to PANIC,
\* PANIC to ALERT); it never moves it from ALERT to PANIC or CRITICAL, or
\* from PANIC to CRITICAL.
C39_NoReescalation ==
    [][(IsStep /\ phase_computed_by_step) =>
          phase_move_allowed(state[1].phase, state'[1].phase)]_vars

\* The step before the last of this evacuation, not restarted since,
\* computed CRITICAL and the step just made moved the phase down to PANIC.
C39_Witness ==
    /\ state # <<>>
    /\ phase_computed_by_step
    /\ run.starts = 1
    /\ Len(history) >= 2
    /\ history[Len(history) - 1].state.phase = "critical"
    /\ state[1].phase = "panic"

\* What a step does to the people: occupancies, evacuated counts, the total
\* and the exits' flow rates.
flow_of_step(r) ==
    [occupancies |-> [i \in 1..Len(r.zones) |-> r.zones[i].current_occupancy],
     evacuated_counts |-> [i \in 1..Len(r.zones) |-> r.zones[i].evacuated_count],
     total_evacuated |-> r.state.total_evacuated,
     flow_rates |-> [i \in 1..Len(r.exits) |-> r.exits[i].current_flow_rate]]

====
